---- MODULE Spec2Model ----
(***************************************************************************)
(* Piecewise rational algebra of FAST-B: Polynomial, Rational, Branch and  *)
(* Function (src/piecewise).                                               *)
(*                                                                         *)
(* Numbers.  Support bounds are integers.  An evaluation point is given by *)
(* an integer y that stands for x = y/2, so that the midpoints             *)
(* np.mean(support) used by branches_in_interval are representable.  A     *)
(* value (the float a call returns) is a pair <<p, q>>: q > 0 and          *)
(* gcd(p, q) = 1 for the finite value p/q, <<1, 0>> for +inf, <<-1, 0>>    *)
(* for -inf and <<0, 0>> for NaN, combined by the IEEE-754 rules that      *)
(* numpy applies (x/0 = +-inf, 0/0 = NaN, 0*inf = NaN, inf-inf = NaN).     *)
(* Rounding is not modelled: coefficients are integers, values exact.      *)
(***************************************************************************)
EXTENDS Integers, Sequences, FiniteSets, TLC

VARIABLES b1, b2, br, f, g, fr, fmerged, op, err, objs, arrs, registry, refs, last

vars == <<b1, b2, br, f, g, fr, fmerged, op, err, objs, arrs, registry, refs, last>>

(***************************************************************************)
(* Bounds of the model.                                                    *)
(***************************************************************************)
\* Branch operands of the Branch-level specification have bounds in 0..MaxCoordB.
MaxCoordB == 3
\* Longest branch list handed to Function(bs, merge=False) before merge_branches.
MaxInput == 3
\* Longest branch lists the operands f and g of a Function operation are built from.
MaxInputF == 2
MaxInputG == 3
\* Shift amounts h of Branch.shift and Function.shift range over -MaxShift..MaxShift.
MaxShift == 2

(***************************************************************************)
(* Exact arithmetic helpers and IEEE values.                               *)
(***************************************************************************)
\* Op(v) with v evaluated once (evaluation order only: the value is Op(v))
Eager(v, Op(_)) == CHOOSE r \in {Op(x) : x \in {v}} : TRUE

Abs(n) == IF n < 0 THEN -n ELSE n

Sgn(n) == IF n < 0 THEN -1 ELSE IF n = 0 THEN 0 ELSE 1

RECURSIVE Gcd(_, _)
Gcd(a, b) == IF b = 0 THEN a ELSE Gcd(b, a % b)

RECURSIVE Pow(_, _)
Pow(a, n) == IF n = 0 THEN 1 ELSE a * Pow(a, n - 1)

NaN == <<0, 0>>
Zero == <<0, 1>>
One == <<1, 1>>

\* p/q in float arithmetic: division by zero gives a signed infinity or NaN.
FDiv(p, q) ==
    IF q = 0 THEN <<Sgn(p), 0>>
    ELSE LET d == Gcd(Abs(p), Abs(q))
         IN  <<(Sgn(q) * p) \div d, Abs(q) \div d>>

IsFinite(v) == v[2] # 0

\* float + float
FAdd(a, b) ==
    IF IsFinite(a) /\ IsFinite(b) THEN FDiv(a[1] * b[2] + b[1] * a[2], a[2] * b[2])
    ELSE IF a = NaN \/ b = NaN THEN NaN
    ELSE IF ~IsFinite(a) /\ ~IsFinite(b) THEN (IF a = b THEN a ELSE NaN)
    ELSE IF IsFinite(a) THEN b ELSE a

\* float * float
FMul(a, b) ==
    IF IsFinite(a) /\ IsFinite(b) THEN FDiv(a[1] * b[1], a[2] * b[2])
    ELSE IF a = NaN \/ b = NaN THEN NaN
    ELSE IF a[1] = 0 \/ b[1] = 0 THEN NaN
    ELSE <<Sgn(a[1]) * Sgn(b[1]), 0>>

\* float / float for finite operands (a polynomial value is always finite)
FQuot(a, b) == FDiv(a[1] * b[2], a[2] * b[1])

\* np.asarray(<bool>, dtype=float)
AsFloat(c) == IF c THEN One ELSE Zero

(***************************************************************************)
(* Polynomial: coefficient sequence, highest degree first.                 *)
(***************************************************************************)
\* np.poly1d.__init__ strips leading zeros and keeps at least one coefficient.
RECURSIVE Polynomial(_)
Polynomial(c) ==
    IF Len(c) = 0 THEN <<0>>
    ELSE IF Len(c) > 1 /\ c[1] = 0 THEN Polynomial(Tail(c))
    ELSE c

PadLeft(c, n) == [i \in 1..n |-> IF i <= n - Len(c) THEN 0 ELSE c[i - (n - Len(c))]]

Polynomial_add(p, q) ==
    LET n == IF Len(p) > Len(q) THEN Len(p) ELSE Len(q)
        a == PadLeft(p, n)
        b == PadLeft(q, n)
    IN  Polynomial([i \in 1..n |-> a[i] + b[i]])

Polynomial_neg(p) == Polynomial([i \in 1..Len(p) |-> -p[i]])

RECURSIVE ConvSum(_, _, _, _)
ConvSum(p, q, k, i) ==
    IF i > Len(p) THEN 0
    ELSE (IF k + 1 - i >= 1 /\ k + 1 - i <= Len(q) THEN p[i] * q[k + 1 - i] ELSE 0)
         + ConvSum(p, q, k, i + 1)

Polynomial_mul(p, q) ==
    Polynomial([k \in 1..(Len(p) + Len(q) - 1) |-> ConvSum(p, q, k, 1)])

RECURSIVE EvalSum(_, _, _)
EvalSum(p, y, i) ==
    IF i > Len(p) THEN 0
    ELSE p[i] * Pow(y, Len(p) - i) * Pow(2, i - 1) + EvalSum(p, y, i + 1)

\* np.poly1d.deriv: the first derivative
Polynomial_deriv(p) ==
    IF Len(p) = 1 THEN <<0>>
    ELSE Polynomial([i \in 1..(Len(p) - 1) |-> p[i] * (Len(p) - i)])

\* np.polyder(p, n)
RECURSIVE PolyDer(_, _)
PolyDer(p, n) == IF n = 0 THEN p ELSE PolyDer(Polynomial_deriv(p), n - 1)

RECURSIVE Factorial(_)
Factorial(n) == IF n <= 1 THEN 1 ELSE n * Factorial(n - 1)

\* the Taylor term p0^(n) * h^n / n!  (the quotient is exact on integer coefficients)
TaylorTerm(p0, h, n) ==
    LET d == PolyDer(p0, n)
    IN  Polynomial([i \in 1..Len(d) |-> (d[i] * Pow(h, n)) \div Factorial(n)])

\* the loop of Polynomial.shift: terms n..order added to acc
RECURSIVE TaylorSum(_, _, _, _)
TaylorSum(acc, p0, h, n) ==
    IF n > Len(p0) - 1 THEN acc
    ELSE Eager(Polynomial_add(acc, TaylorTerm(p0, h, n)),
               LAMBDA next : TaylorSum(next, p0, h, n + 1))

\* Polynomial.shift: p(x + h)
Polynomial_shift(p, h) == TaylorSum(p, p, h, 1)

\* p(x) at x = y/2
Polynomial_call(p, y) == FDiv(EvalSum(p, y, 1), Pow(2, Len(p) - 1))

(***************************************************************************)
(* Rational: [numerator, denominator].                                     *)
(***************************************************************************)
Rational(n, d) == [numerator |-> n, denominator |-> d]

Rational_call(r, y) ==
    Eager(Polynomial_call(r.numerator, y),
          LAMBDA n : Eager(Polynomial_call(r.denominator, y), LAMBDA d : FQuot(n, d)))

Rational_add(r, s) ==
    Rational(Polynomial_add(Polynomial_mul(r.numerator, s.denominator),
                            Polynomial_mul(r.denominator, s.numerator)),
             Polynomial_mul(r.denominator, s.denominator))

Rational_neg(r) == Rational(Polynomial_neg(r.numerator), r.denominator)

Rational_mul(r, s) ==
    Rational(Polynomial_mul(r.numerator, s.numerator),
             Polynomial_mul(r.denominator, s.denominator))

\* Rational.shift: numerator and denominator shifted
Rational_shift(r, h) ==
    Rational(Polynomial_shift(r.numerator, h), Polynomial_shift(r.denominator, h))

\* Rational.diff: the quotient rule applied nr_times times
RECURSIVE Rational_diff(_, _)
Rational_diff(r, nr_times) ==
    IF nr_times = 0 THEN r
    ELSE Eager(Rational(Polynomial_add(Polynomial_mul(Polynomial_deriv(r.numerator), r.denominator),
                                       Polynomial_neg(Polynomial_mul(r.numerator,
                                                                     Polynomial_deriv(r.denominator)))),
                        Polynomial_mul(r.denominator, r.denominator)),
               LAMBDA next : Rational_diff(next, nr_times - 1))

Rational_updown(r) == Rational(r.denominator, r.numerator)

Rational_truediv(r, s) == Rational_mul(r, Rational_updown(s))

(***************************************************************************)
(* Branch: a Rational restricted to support = <<lo, hi>> with two boundary *)
(* flags.  Every point handed to includes / call is the doubled coordinate *)
(* y = 2x.                                                                 *)
(***************************************************************************)
Branch(support, numerator, denominator, includes_left_boundary, includes_right_boundary) ==
    [support |-> support, numerator |-> numerator, denominator |-> denominator,
     includes_left_boundary |-> includes_left_boundary,
     includes_right_boundary |-> includes_right_boundary]

\* ops["left"] / ops["right"]: operator.le when the boundary is included, operator.lt otherwise
Branch_ops_left(b, u, v) == IF b.includes_left_boundary THEN u <= v ELSE u < v

Branch_ops_right(b, u, v) == IF b.includes_right_boundary THEN u <= v ELSE u < v

Branch_formula(b) == Rational(b.numerator, b.denominator)

Branch_includes(b, y) ==
    /\ Branch_ops_left(b, 2 * b.support[1], y)
    /\ Branch_ops_right(b, y, 2 * b.support[2])

\* left_bc * Rational.__call__(x) * right_bc
Branch_call(b, y) ==
    LET left_bc == AsFloat(Branch_ops_left(b, 2 * b.support[1], y))
        right_bc == AsFloat(Branch_ops_right(b, y, 2 * b.support[2]))
    IN  Eager(Rational_call(Branch_formula(b), y),
              LAMBDA v : Eager(FMul(left_bc, v), LAMBDA w : FMul(w, right_bc)))

Max2(a, b) == IF a >= b THEN a ELSE b

Min2(a, b) == IF a <= b THEN a ELSE b

\* mutant of Branch_common_support: a boundary is included when either operand includes it
Branch_common_support_either(p, q) ==
    LET x1 == Max2(p.support[1], q.support[1])
        x2 == Min2(p.support[2], q.support[2])
    IN  [support |-> IF x1 > x2 THEN <<0, 0>> ELSE <<x1, x2>>,
         inc_left |-> Branch_includes(p, 2 * x1) \/ Branch_includes(q, 2 * x1),
         inc_right |-> Branch_includes(p, 2 * x2) \/ Branch_includes(q, 2 * x2)]

Branch_common_support(p, q) ==
    LET x1 == Max2(p.support[1], q.support[1])
        x2 == Min2(p.support[2], q.support[2])
        inc_left_boundary == Branch_includes(p, 2 * x1) /\ Branch_includes(q, 2 * x1)
        inc_right_boundary == Branch_includes(p, 2 * x2) /\ Branch_includes(q, 2 * x2)
    IN  [support |-> IF x1 > x2 THEN <<0, 0>> ELSE <<x1, x2>>,
         inc_left |-> inc_left_boundary,
         inc_right |-> inc_right_boundary]

\* the Branch every binary operator builds from the combined formula R
BranchOn(cs, R) == Branch(cs.support, R.numerator, R.denominator, cs.inc_left, cs.inc_right)

Branch_add(p, q) ==
    BranchOn(Branch_common_support(p, q), Rational_add(Branch_formula(p), Branch_formula(q)))

Branch_neg(p) == [p EXCEPT !.numerator = Polynomial_neg(p.numerator)]

Branch_sub(p, q) ==
    BranchOn(Branch_common_support(p, q),
             Rational_add(Branch_formula(p), Rational_neg(Branch_formula(q))))

Branch_mul(p, q) ==
    BranchOn(Branch_common_support(p, q), Rational_mul(Branch_formula(p), Branch_formula(q)))

Branch_truediv(p, q) ==
    BranchOn(Branch_common_support(p, q), Rational_truediv(Branch_formula(p), Branch_formula(q)))

\* mutant of Branch_shift: the support moves by +h while the formula becomes p(x + h)
Branch_shift_right(b, h) ==
    LET R == Rational_shift(Branch_formula(b), h)
    IN  [b EXCEPT !.numerator = R.numerator, !.denominator = R.denominator,
                  !.support = <<b.support[1] + h, b.support[2] + h>>]

\* Branch.shift: Rational.shift on the formula, then support - h
Branch_shift(b, h) ==
    LET R == Rational_shift(Branch_formula(b), h)
    IN  [b EXCEPT !.numerator = R.numerator, !.denominator = R.denominator,
                  !.support = <<b.support[1] - h, b.support[2] - h>>]

\* Rational.diff on a branch (Branch inherits it): support and flags stay
Branch_diff(b, n) ==
    LET R == Rational_diff(Branch_formula(b), n)
    IN  [b EXCEPT !.numerator = R.numerator, !.denominator = R.denominator]

\* Polynomial.scale: the coefficient of x^n is multiplied by c^n
Polynomial_scale(p, c) == [i \in 1..Len(p) |-> p[i] * Pow(c, Len(p) - i)]

\* Rational.scale: numerator and denominator scaled
Rational_scale(r, c) == Rational(Polynomial_scale(r.numerator, c), Polynomial_scale(r.denominator, c))

\* Branch.scale: Rational.scale on the formula, then support / c (c divides both bounds)
Branch_scale(b, c) ==
    LET R == Rational_scale(Branch_formula(b), c)
    IN  [b EXCEPT !.numerator = R.numerator, !.denominator = R.denominator,
                  !.support = <<Sgn(c) * (b.support[1] \div Abs(c)),
                                Sgn(c) * (b.support[2] \div Abs(c))>>]

\* Branch.__init__: the support must have exactly two elements
Branch_init(support, numerator, denominator, includes_left_boundary, includes_right_boundary) ==
    IF Len(support) # 2 THEN [raised |-> TRUE, branch |-> <<>>]
    ELSE [raised |-> FALSE,
          branch |-> Branch(support, numerator, denominator,
                            includes_left_boundary, includes_right_boundary)]

(***************************************************************************)
(* Function: [branches, derivative].  An operation that can raise returns  *)
(* [branches, raised]: the branches as the code left them and whether it   *)
(* raised (IndexError in the boundary scan of merge_branches) on the way.  *)
(***************************************************************************)
Function(branches, derivative) == [branches |-> branches, derivative |-> derivative]

\* np.unique: the sorted sequence of the distinct members of S
RECURSIVE SortedSeq(_)
SortedSeq(S) ==
    IF S = {} THEN <<>>
    ELSE LET m == CHOOSE u \in S : \A v \in S : u <= v
         IN  <<m>> \o SortedSeq(S \ {m})

Function_breakpoints(bs) ==
    SortedSeq({bs[i].support[1] : i \in 1..Len(bs)} \cup {bs[i].support[2] : i \in 1..Len(bs)})

\* indices (in branch order) of the branches that include the midpoint of (x1, x2)
RECURSIVE InInterval(_, _, _, _)
InInterval(bs, x1, x2, i) ==
    IF i > Len(bs) THEN <<>>
    ELSE (IF Branch_includes(bs[i], x1 + x2) THEN <<i>> ELSE <<>>)
         \o InInterval(bs, x1, x2, i + 1)

Function_branches_in_interval(bs, x1, x2) == InInterval(bs, x1, x2, 1)

\* y = 0; for b in branches: y += b(x)
RECURSIVE CallSum(_, _, _)
CallSum(bs, y, i) ==
    IF i = 0 THEN Zero
    ELSE Eager(CallSum(bs, y, i - 1),
               LAMBDA acc : Eager(Branch_call(bs[i], y), LAMBDA v : FAdd(acc, v)))

Function_call(F, y) == CallSum(F.branches, y, Len(F.branches))

\* R += self.branches[branch_id] for the ids from position j on
RECURSIVE AddSupported(_, _, _, _)
AddSupported(bs, ids, j, R) ==
    IF j > Len(ids) THEN R
    ELSE Eager(Branch_add(R, bs[ids[j]]), LAMBDA R2 : AddSupported(bs, ids, j + 1, R2))

\* mutant of MergeIntervals: one branch per supported input branch, nothing is summed
RECURSIVE MergeIntervals_unsummed(_, _, _)
MergeIntervals_unsummed(bs, bp, i) ==
    IF i + 1 > Len(bp) THEN <<>>
    ELSE LET x1 == bp[i]
             x2 == bp[i + 1]
             ids == Function_branches_in_interval(bs, x1, x2)
         IN  [j \in 1..Len(ids) |->
                 Branch_add(Branch(<<x1, x2>>, <<0>>, <<1>>, TRUE, FALSE), bs[ids[j]])]
             \o MergeIntervals_unsummed(bs, bp, i + 1)

\* mutant of MergeIntervals: the sum starts from 0/2 instead of 0/1
RECURSIVE MergeIntervals_seed(_, _, _)
MergeIntervals_seed(bs, bp, i) ==
    IF i + 1 > Len(bp) THEN <<>>
    ELSE LET x1 == bp[i]
             x2 == bp[i + 1]
             Summed(ids) == AddSupported(bs, ids, 1, Branch(<<x1, x2>>, <<0>>, <<2>>, TRUE, FALSE))
             Kept(R) == IF R.numerator[1] = 0 THEN <<>> ELSE <<R>>
         IN  Eager(Eager(Function_branches_in_interval(bs, x1, x2), Summed), Kept)
             \o MergeIntervals_seed(bs, bp, i + 1)

\* mutant of MergeIntervals: a sum that cancelled to zero is kept
RECURSIVE MergeIntervals_keep_zero(_, _, _)
MergeIntervals_keep_zero(bs, bp, i) ==
    IF i + 1 > Len(bp) THEN <<>>
    ELSE LET x1 == bp[i]
             x2 == bp[i + 1]
             Summed(ids) == AddSupported(bs, ids, 1, Branch(<<x1, x2>>, <<0>>, <<1>>, TRUE, FALSE))
         IN  <<Eager(Function_branches_in_interval(bs, x1, x2), Summed)>>
             \o MergeIntervals_keep_zero(bs, bp, i + 1)

\* first loop of merge_branches: one summed branch per pair of consecutive breakpoints
RECURSIVE MergeIntervals(_, _, _)
MergeIntervals(bs, bp, i) ==
    IF i + 1 > Len(bp) THEN <<>>
    ELSE LET x1 == bp[i]
             x2 == bp[i + 1]
             Summed(ids) == AddSupported(bs, ids, 1, Branch(<<x1, x2>>, <<0>>, <<1>>, TRUE, FALSE))
             Kept(R) == IF R.numerator[1] = 0 THEN <<>> ELSE <<R>>
         IN  Eager(Eager(Function_branches_in_interval(bs, x1, x2), Summed), Kept)
             \o MergeIntervals(bs, bp, i + 1)

NullBranch == Branch(<<0, 1>>, <<0>>, <<1>>, TRUE, FALSE)

\* second loop of merge_branches; i is the Python loop index, bp[i + 1] is breakpoints[i]
RECURSIVE BoundaryScan(_, _, _)
BoundaryScan(bs, bp, i) ==
    IF i > Len(bp) - 2 THEN [branches |-> bs, raised |-> FALSE]
    ELSE IF Len(Function_branches_in_interval(bs, bp[i + 1], bp[i + 2])) = 0
         THEN IF i > Len(bs)
              THEN [branches |-> bs, raised |-> TRUE]
              ELSE Eager([bs EXCEPT ![i].includes_right_boundary = TRUE],
                         LAMBDA marked : BoundaryScan(marked, bp, i + 1))
         ELSE BoundaryScan(bs, bp, i + 1)

\* mutant of Function_merge_branches: the last branch is left as the scan left it
Function_merge_branches_scan_only(bs) ==
    LET Merged(bp) == MergeIntervals(bs, bp, 1)
        OrNull(merged) == IF Len(merged) = 0 THEN <<NullBranch>> ELSE merged
        Scanned(new_branches) ==
            Eager(Function_breakpoints(new_branches),
                  LAMBDA bp : BoundaryScan(new_branches, bp, 1))
    IN  Eager(Eager(Eager(Function_breakpoints(bs), Merged), OrNull), Scanned)

Function_merge_branches(bs) ==
    LET Merged(bp) == MergeIntervals(bs, bp, 1)
        OrNull(merged) == IF Len(merged) = 0 THEN <<NullBranch>> ELSE merged
        Scanned(new_branches) ==
            Eager(Function_breakpoints(new_branches),
                  LAMBDA bp : BoundaryScan(new_branches, bp, 1))
        LastIncluded(scanned) ==
            IF scanned.raised THEN scanned
            ELSE [branches |-> [scanned.branches EXCEPT
                                   ![Len(scanned.branches)].includes_right_boundary = TRUE],
                  raised |-> FALSE]
    IN  Eager(Eager(Eager(Eager(Function_breakpoints(bs), Merged), OrNull), Scanned), LastIncluded)

\* Function.__init__ with merge=True
Function_init(bs) == Function_merge_branches(bs)

Function_add(F, G) ==
    Eager(Function_init(F.branches \o G.branches),
          LAMBDA new_function : IF new_function.raised THEN new_function
                                ELSE Eager(new_function.branches, Function_merge_branches))

Function_neg(F) == [F EXCEPT !.branches = [i \in 1..Len(F.branches) |-> Branch_neg(F.branches[i])]]

Function_sub(F, G) == Eager(Function_neg(G), LAMBDA minus : Function_add(F, minus))

RECURSIVE MulIntervals(_, _, _, _)
MulIntervals(fb, gb, bp, i) ==
    IF i + 1 > Len(bp) THEN <<>>
    ELSE LET x1 == bp[i]
             x2 == bp[i + 1]
             branch_1 == Function_branches_in_interval(fb, x1, x2)
             branch_2 == Function_branches_in_interval(gb, x1, x2)
         IN  (IF Len(branch_1) = 0 \/ Len(branch_2) = 0 THEN <<>>
              ELSE Eager(Branch_mul(fb[branch_1[1]], gb[branch_2[1]]),
                         LAMBDA R : <<Branch(<<x1, x2>>, R.numerator, R.denominator, TRUE, FALSE)>>))
             \o MulIntervals(fb, gb, bp, i + 1)

Function_mul(F, G) ==
    LET Products(total_breakpoints) == MulIntervals(F.branches, G.branches, total_breakpoints, 1)
        Built(new_branches) ==
            IF Len(new_branches) = 0 THEN Function_init(<<NullBranch>>)
            ELSE Function_init(new_branches)
    IN  Eager(Eager(Function_breakpoints(F.branches \o G.branches), Products), Built)

\* Rational.updown on a Branch: numerator and denominator swapped, support and flags kept
Branch_updown(b) ==
    LET R == Rational_updown(Branch_formula(b))
    IN  [b EXCEPT !.numerator = R.numerator, !.denominator = R.denominator]

\* Function.updown: every branch inverted, nothing merged again
Function_updown(F) ==
    [F EXCEPT !.branches = [i \in 1..Len(F.branches) |-> Branch_updown(F.branches[i])]]

\* Function.__truediv__: self * other.updown()
Function_truediv(F, G) == Eager(Function_updown(G), LAMBDA inverse : Function_mul(F, inverse))

\* Function.shift: every branch shifted, nothing merged again
Function_shift(F, h) ==
    [F EXCEPT !.branches = [i \in 1..Len(F.branches) |-> Branch_shift(F.branches[i], h)]]

\* mutant of Function.diff: the differentiated branches are merged again
Function_diff_merged(F, n) ==
    [branches |-> Function_merge_branches([i \in 1..Len(F.branches) |-> Branch_diff(F.branches[i], n)]).branches,
     derivative |-> F.derivative + n]

\* Function.diff: every branch differentiated, the derivative counter raised by n
Function_diff(F, n) ==
    [branches |-> [i \in 1..Len(F.branches) |-> Branch_diff(F.branches[i], n)],
     derivative |-> F.derivative + n]

(***************************************************************************)
(* Inputs.                                                                 *)
(***************************************************************************)
NumeratorsB == {<<1>>, <<1, 0>>}

DenominatorsB == {<<1>>, <<1, -3>>}

\* operands of the Branch operations: every support with 0 <= lo <= hi <= MaxCoordB
BranchSetB ==
    {Branch(<<lo, hi>>, n, d, il, ir) :
        lo \in 0..MaxCoordB, hi \in 0..MaxCoordB, n \in NumeratorsB, d \in DenominatorsB,
        il \in BOOLEAN, ir \in BOOLEAN} \cap
    {b \in [support : (0..MaxCoordB) \X (0..MaxCoordB), numerator : NumeratorsB,
            denominator : DenominatorsB, includes_left_boundary : BOOLEAN,
            includes_right_boundary : BOOLEAN] : b.support[1] <= b.support[2]}

\* evaluation points y = 2x around the supports of BranchSetB
PointsB == (-2)..(2 * MaxCoordB + 2)

\* branches the Function inputs are built from: separated unit intervals,
\* adjacent and overlapping ones, a point support, a cancelling pair,
\* excluded left / included right boundaries, non-unit denominators and a pole
FnPalette ==
    { Branch(<<0, 1>>, <<1>>, <<1>>, TRUE, FALSE),
      Branch(<<1, 2>>, <<1>>, <<1>>, TRUE, FALSE),
      Branch(<<2, 3>>, <<1>>, <<1>>, TRUE, FALSE),
      Branch(<<2, 3>>, <<-1>>, <<1>>, TRUE, FALSE),
      Branch(<<4, 5>>, <<1>>, <<1>>, TRUE, TRUE),
      Branch(<<5, 6>>, <<1, 0>>, <<1>>, TRUE, FALSE),
      Branch(<<6, 7>>, <<1>>, <<1>>, TRUE, FALSE),
      Branch(<<1, 5>>, <<1, 0>>, <<2>>, FALSE, TRUE),
      Branch(<<3, 3>>, <<1>>, <<1>>, TRUE, TRUE),
      Branch(<<0, 4>>, <<1>>, <<1, -3>>, TRUE, FALSE) }

RECURSIVE SeqsUpTo(_, _)
SeqsUpTo(S, n) ==
    IF n = 0 THEN {<<>>}
    ELSE LET shorter == SeqsUpTo(S, n - 1)
         IN  shorter \cup {Append(q, e) : q \in shorter, e \in S}

InputLists == SeqsUpTo(FnPalette, MaxInput)

\* the functions Function(bs) constructs (merge=True) from the lists up to length n
Constructed(palette, n) ==
    {Function(Function_init(bs).branches, 0) :
        bs \in {l \in SeqsUpTo(palette, n) : ~Function_init(l).raised}}

\* branches of the left operands: separated and overlapping supports, a pole
FnPaletteF ==
    { Branch(<<0, 1>>, <<1>>, <<1>>, TRUE, FALSE),
      Branch(<<2, 3>>, <<1>>, <<1>>, TRUE, FALSE),
      Branch(<<2, 7>>, <<1, 0>>, <<2>>, FALSE, TRUE),
      Branch(<<0, 4>>, <<1>>, <<1, -3>>, TRUE, FALSE) }

\* branches of the right operands: separated and adjacent supports
FnPaletteG ==
    { Branch(<<0, 3>>, <<1>>, <<1>>, TRUE, FALSE),
      Branch(<<4, 5>>, <<1>>, <<1>>, TRUE, TRUE),
      Branch(<<5, 6>>, <<1, 0>>, <<1>>, TRUE, FALSE),
      Branch(<<6, 7>>, <<1>>, <<1>>, TRUE, FALSE) }

FunctionsF == Constructed(FnPaletteF, MaxInputF)

FunctionsG == Constructed(FnPaletteG, MaxInputG)

\* evaluation points y = 2x around the supports of FnPalette
Points == (-2)..16

NullFunction == Function(Function_init(<<>>).branches, 0)

(***************************************************************************)
(* Branch-level specification: two operand branches and the result of the  *)
(* last binary operation.                                                  *)
(***************************************************************************)
\* the objects, the registries and the arguments of the last call are not touched
RegistryIdle == UNCHANGED <<objs, arrs, registry, refs, last>>

\* no object has been created, the registries are empty
RegistryEmpty ==
    /\ objs = <<>> /\ arrs = <<>> /\ registry = <<>>
    /\ refs = <<0, 0>> /\ last = 0

FnIdle == UNCHANGED <<f, g, fr, fmerged, err>> /\ RegistryIdle

InitBranch ==
    /\ b1 \in BranchSetB
    /\ b2 \in BranchSetB
    /\ br = b1
    /\ op = "init"
    /\ f = NullFunction /\ g = NullFunction /\ fr = NullFunction
    /\ fmerged = TRUE /\ err = FALSE
    /\ RegistryEmpty

BranchAdd == br' = Branch_add(b1, b2) /\ op' = "add" /\ UNCHANGED <<b1, b2>> /\ FnIdle

BranchSub == br' = Branch_sub(b1, b2) /\ op' = "sub" /\ UNCHANGED <<b1, b2>> /\ FnIdle

BranchMul == br' = Branch_mul(b1, b2) /\ op' = "mul" /\ UNCHANGED <<b1, b2>> /\ FnIdle

BranchTruediv == br' = Branch_truediv(b1, b2) /\ op' = "truediv" /\ UNCHANGED <<b1, b2>> /\ FnIdle

NextBranch == BranchAdd \/ BranchSub \/ BranchMul \/ BranchTruediv

SpecBranch == InitBranch /\ [][NextBranch]_vars

(***************************************************************************)
(* Merge specification: an object f built without merging from an input    *)
(* list, then merged (and merged again), and the difference f - f.         *)
(***************************************************************************)
BranchIdle == UNCHANGED <<b1, b2, br>> /\ RegistryIdle

\* f = Function(bs, merge=False) for an input list bs
InitMerge ==
    /\ f \in {Function(bs, 0) : bs \in InputLists}
    /\ g = NullFunction /\ fr = NullFunction
    /\ fmerged = FALSE /\ err = FALSE /\ op = "init"
    /\ b1 = NullBranch /\ b2 = NullBranch /\ br = NullBranch
    /\ RegistryEmpty

\* op records the last call; "remerge" is merge_branches on an already merged f
MergeOps == {"merge", "remerge"}

\* f.merge_branches(): f keeps the branches the call left behind, also when it raises
Merge ==
    \E r \in {Function_merge_branches(f.branches)} :
        /\ f' = [f EXCEPT !.branches = r.branches]
        /\ fmerged' = ~r.raised /\ err' = r.raised
        /\ op' = (IF fmerged THEN "remerge" ELSE "merge")
        /\ UNCHANGED <<g, fr>> /\ BranchIdle

\* fr = f <name> other: the assignment does not happen when the operation raises
Binary(other, r, name) ==
    /\ g' = other
    /\ fr' = IF r.raised THEN fr ELSE Function(r.branches, 0)
    /\ err' = r.raised /\ op' = name
    /\ UNCHANGED <<f, fmerged>> /\ BranchIdle

\* fr = f - f
SubSelf == \E r \in {Function_sub(f, f)} : Binary(f, r, "subself")

NextMerge == Merge \/ SubSelf

SpecMerge == InitMerge /\ [][NextMerge]_vars

(***************************************************************************)
(* Arithmetic specification: two merged functions f and g and the result   *)
(* fr of the last binary operation on them.                                *)
(***************************************************************************)
Init ==
    /\ f \in FunctionsF
    /\ g \in FunctionsG
    /\ fr = NullFunction
    /\ fmerged = TRUE /\ err = FALSE /\ op = "init"
    /\ b1 = NullBranch /\ b2 = NullBranch /\ br = NullBranch
    /\ RegistryEmpty

\* fr = f + g
Add == \E r \in {Function_add(f, g)} : Binary(g, r, "add")

\* fr = f - g
Sub == \E r \in {Function_sub(f, g)} : Binary(g, r, "sub")

\* fr = f * g
Mul == \E r \in {Function_mul(f, g)} : Binary(g, r, "mul")

Next == Add \/ Sub \/ Mul

Spec == Init /\ [][Next]_vars

(***************************************************************************)
(* Shift specification: a branch b1 or a merged function f, and the result *)
(* br = b1.shift(h), fr = f.shift(h) of the last call; last is h.          *)
(***************************************************************************)
\* formulas of degree two and three, for the higher Taylor terms of Polynomial.shift
BranchSetS ==
    BranchSetB \cup
    { Branch(<<0, 2>>, <<1, 0, -1>>, <<1>>, TRUE, FALSE),
      Branch(<<1, 3>>, <<1, 0, 0, 0>>, <<1, 1>>, FALSE, TRUE),
      Branch(<<1, 2>>, <<2, -3, 1>>, <<1, 0, 4>>, TRUE, TRUE) }

ShiftsH == (-MaxShift)..MaxShift

\* evaluation points y = 2x around the shifted supports
PointsS == (-2 - 2 * MaxShift)..(2 * MaxCoordB + 2 + 2 * MaxShift)

InitShift ==
    /\ \/ b1 \in BranchSetS /\ f = NullFunction
       \/ b1 = NullBranch /\ f \in FunctionsF
    /\ b2 = NullBranch /\ br = b1
    /\ g = NullFunction /\ fr = f
    /\ fmerged = TRUE /\ err = FALSE /\ op = "init"
    /\ RegistryEmpty

\* br = b1.shift(h)
BranchShift ==
    \E h \in ShiftsH :
        /\ br' = Branch_shift(b1, h)
        /\ op' = "shift" /\ last' = h
        /\ UNCHANGED <<b1, b2, f, g, fr, fmerged, err, objs, arrs, registry, refs>>

\* fr = f.shift(h)
FunctionShift ==
    \E h \in ShiftsH :
        /\ fr' = Function_shift(f, h)
        /\ op' = "fshift" /\ last' = h
        /\ UNCHANGED <<b1, b2, br, f, g, fmerged, err, objs, arrs, registry, refs>>

NextShift == BranchShift \/ FunctionShift

SpecShift == InitShift /\ [][NextShift]_vars

(***************************************************************************)
(* Objects and registries (src/system/copyable.py, src/nurbs/bsplines.py). *)
(* objs[id] is a basis-function object [cls, t, m, k, derivative, arr];    *)
(* arrs[objs[id].arr] is its branches array, so that two objects may share *)
(* one array (build_from copies the attributes shallowly).  A heap H is    *)
(* [objs, arrs, registry, stores, constructs]: registry maps a key to the  *)
(* id of the registry's object, stores and constructs count the calls of   *)
(* store and of the constructors.  The registries of CardinalBSpline and   *)
(* NonUniformBSpline are two dicts; their keys carry the tag "C" or "N".   *)
(***************************************************************************)
\* the knot vectors: [degree, items, domain], keys are 1..Len(items) (first_index = 1)
Knotvectors ==
    << [degree |-> 0, items |-> <<0, 1, 2>>, domain |-> <<0, 2>>, first_index |-> 1],
       [degree |-> 1, items |-> <<0, 0, 2, 2>>, domain |-> <<0, 2>>, first_index |-> 1],
       [degree |-> 0, items |-> <<0, 1, 2>>, domain |-> <<0, 2>>, first_index |-> 0],
       [degree |-> 0, items |-> <<0, 0, 2, 2>>, domain |-> <<0, 2>>, first_index |-> 1] >>

\* the knot vectors of the registry specification: no two of them have equal values
KnotvectorsR == {1, 2}

\* Knotvector.kmin, Knotvector.kmax
Knotvector_kmin(t) == t.first_index

Knotvector_kmax(t) == t.first_index + Len(t.items) - t.degree - 2

\* Knotvector.key: the degree and the knot values
Knotvector_key(t) == <<t.degree>> \o t.items

\* the first knot vector with the key of knot vector ti: it stands for that key
KeyIndex(ti) == CHOOSE tj \in 1..ti :
                   /\ Knotvector_key(Knotvectors[tj]) = Knotvector_key(Knotvectors[ti])
                   /\ \A u \in 1..(tj - 1) : Knotvector_key(Knotvectors[u]) # Knotvector_key(Knotvectors[ti])

\* CardinalBSpline.key and NonUniformBSpline.key of an object
CardinalBSpline_key(m, derivative) == <<"C", m, derivative>>

NonUniformBSpline_key(ti, m, k, derivative) == <<"N", KeyIndex(ti), m, k, derivative>>

KeyOf(o) ==
    IF o.cls = "C" THEN CardinalBSpline_key(o.m, o.derivative)
    ELSE NonUniformBSpline_key(o.t, o.m, o.k, o.derivative)

\* the identity of a new object: the smallest id no live object has
FreshId(S) == CHOOSE i \in 1..(Cardinality(S) + 1) : i \notin S /\ \A j \in 1..(i - 1) : j \in S

Extend(fn, x, v) == [y \in DOMAIN fn \cup {x} |-> IF y = x THEN v ELSE fn[y]]

EmptyHeap ==
    [objs |-> <<>>, arrs |-> <<>>, registry |-> <<>>, new |-> 0, stores |-> 0, constructs |-> 0, printed |-> 0]

\* a new object with a new branches array; H.new is its id
Allocate(H, fields, branches) ==
    LET a == FreshId(DOMAIN H.arrs)
        i == FreshId(DOMAIN H.objs)
    IN  [H EXCEPT !.arrs = Extend(H.arrs, a, branches),
                  !.objs = Extend(H.objs, i, [fields EXCEPT !.arr = a]),
                  !.new = i]

\* a new object holding the attributes of another one, its branches array included
Share(H, id) ==
    LET i == FreshId(DOMAIN H.objs)
    IN  [H EXCEPT !.objs = Extend(H.objs, i, H.objs[id]), !.new = i]

\* mutant of Copyable_deepcopy: copy.copy, the new object shares the branches array
Copyable_shallowcopy(H, id) == Share(H, id)

\* Copyable.deepcopy: H.new is the copy
Copyable_deepcopy(H, id) == Allocate(H, H.objs[id], H.arrs[H.objs[id].arr])

\* the diagnostic of store: 'EXISTING KEY*' is printed when the key is present
Printed(H, key) == IF key \in DOMAIN H.registry THEN H.printed + 1 ELSE H.printed

\* mutant of Copyable_store: the registry keeps the caller's object itself
Copyable_store_live(H, key, id) ==
    [H EXCEPT !.registry = Extend(H.registry, key, id),
              !.stores = H.stores + 1,
              !.printed = Printed(H, key)]

\* Copyable.store: the registry keeps a deep copy of the item
Copyable_store(H, key, id) ==
    Eager(Copyable_deepcopy(H, id),
          LAMBDA C : [C EXCEPT !.registry = Extend(H.registry, key, C.new),
                               !.stores = H.stores + 1,
                               !.printed = Printed(H, key)])

\* mutant of Copyable_retrieve: nothing is ever found
Copyable_retrieve_miss(H, key) == [H EXCEPT !.new = 0]

\* mutant of Copyable_retrieve: the registry's own object is returned
Copyable_retrieve_live(H, key) ==
    IF key \in DOMAIN H.registry THEN [H EXCEPT !.new = H.registry[key]]
    ELSE [H EXCEPT !.new = 0]

\* Copyable.retrieve: H.new is a deep copy of the entry, or None (0)
Copyable_retrieve(H, key) ==
    IF key \in DOMAIN H.registry THEN Copyable_deepcopy(H, H.registry[key])
    ELSE [H EXCEPT !.new = 0]

\* Copyable.build_from: self takes over the attributes of other, its array included
Copyable_build_from(H, other) == Share(H, other)

\* the result of a constructor or of diff: the heap, the object returned, the error raised
Returned(H, id) == [H |-> H, id |-> id, error |-> "none"]

Raised(H, error) == [H |-> H, id |-> 0, error |-> error]

Entered(H) == [H EXCEPT !.constructs = H.constructs + 1]

\* the elements of a finite set in a fixed order
RECURSIVE SetToSeq(_)
SetToSeq(S) == IF S = {} THEN <<>> ELSE LET x == CHOOSE y \in S : TRUE IN <<x>> \o SetToSeq(S \ {x})

RECURSIVE Distinct(_)
Distinct(seq) ==
    IF Len(seq) = 0 THEN <<>>
    ELSE LET rest == Distinct(SubSeq(seq, 1, Len(seq) - 1))
         IN  IF \E i \in 1..Len(rest) : rest[i] = seq[Len(seq)] THEN rest ELSE Append(rest, seq[Len(seq)])

IndexOf(seq, x) == CHOOSE i \in 1..Len(seq) : seq[i] = x

\* the objects the caller's handles and the registry can reach, handles first; the others
\* are collected.  The objects kept are numbered in this order, and so are their arrays:
\* which number an object has carries no information, which objects are the same one does.
Live(H, handles) ==
    LET ks == SetToSeq(DOMAIN H.registry)
        hs == SelectSeq(handles, LAMBDA h : h # 0)
    IN  Distinct(hs \o [i \in 1..Len(ks) |-> H.registry[ks[i]]])

Collected(H, handles) ==
    Eager(Live(H, handles),
          LAMBDA ids :
            LET as == Distinct([i \in 1..Len(ids) |-> H.objs[ids[i]].arr])
            IN  [objs |-> [i \in 1..Len(ids) |->
                              [H.objs[ids[i]] EXCEPT !.arr = IndexOf(as, H.objs[ids[i]].arr)]],
                 arrs |-> [a \in 1..Len(as) |-> H.arrs[as[a]]],
                 registry |-> [x \in DOMAIN H.registry |-> IndexOf(ids, H.registry[x])],
                 handles |-> [j \in 1..Len(handles) |->
                                 IF handles[j] = 0 THEN 0 ELSE IndexOf(ids, handles[j])]])

\* super().__init__(B.branches) and the store that ends both constructors
Built(H, fields, B) ==
    IF B.raised THEN Raised(H, "IndexError")
    ELSE Eager(Function_init(B.branches),
               LAMBDA F : IF F.raised THEN Raised(H, "IndexError")
                          ELSE Eager(Allocate(H, fields, F.branches),
                                     LAMBDA A : Returned([Copyable_store(A, KeyOf(fields), A.new)
                                                             EXCEPT !.new = A.new], A.new)))

\* B = G1 + G2 and B.simplify(): Function has no method simplify
Recurrence(H, G1, G2) ==
    IF G1.raised \/ G2.raised THEN Raised(H, "IndexError")
    ELSE Eager(Function_add(G1, G2),
               LAMBDA B : IF B.raised THEN Raised(H, "IndexError")
                          ELSE Raised(H, "AttributeError"))

ValueOf(H, id) == Function(H.arrs[H.objs[id].arr], H.objs[id].derivative)

Coefficient(numerator, denominator, support) ==
    Function(Function_init(<<Branch(support, numerator, denominator, TRUE, FALSE)>>).branches, 0)

\* mutant of DegreeAsserted: the degree 0 passes
DegreeAsserted_from_zero(m) == m >= 0

\* assert m > 0, "Degree must be larger than 0."
DegreeAsserted(m) == m > 0

\* self.build_from(mycopy); return -- build_from asserts that both are of one type
Adopted(R, fields) ==
    IF R.objs[R.new].cls # fields.cls THEN Raised(R, "AssertionError")
    ELSE Eager(Copyable_build_from(R, R.new), LAMBDA S : Returned(S, S.new))

\* CardinalBSpline.__init__
RECURSIVE CardinalBSpline_init(_, _)
CardinalBSpline_init(H0, m) ==
    LET fields == [cls |-> "C", t |-> 0, m |-> m, k |-> 0, derivative |-> 0, arr |-> 0]
        H == Entered(H0)
        FromScratch ==
            IF ~DegreeAsserted(m) THEN Raised(H, "AssertionError")
            ELSE IF m = 1
            THEN Built(H, fields, Function_init(<<Branch(<<0, m>>, Polynomial(<<1>>), <<1>>, TRUE, FALSE)>>))
            ELSE Eager(CardinalBSpline_init(H, m - 1),
                       LAMBDA BS :
                         IF BS.error # "none" THEN BS
                         ELSE LET F1 == ValueOf(BS.H, BS.id)
                                  C1 == Coefficient(Polynomial(<<1, 0>>), Polynomial(<<m - 1>>), <<0, m>>)
                                  F2 == Function_shift(F1, -1)
                                  C2 == Coefficient(Polynomial(<<-1, m>>), Polynomial(<<m - 1>>), <<0, m>>)
                              IN  Eager(<<Function_mul(C1, F1), Function_mul(C2, F2)>>,
                                        LAMBDA G : Recurrence(BS.H, G[1], G[2])))
    IN  Eager(Copyable_retrieve(H, KeyOf(fields)),
              LAMBDA R : IF R.new # 0 THEN Adopted(R, fields) ELSE FromScratch)

\* Container.__getitem__ on a knot vector whose keys are first_index, first_index + 1, ...
Knot(t, k) == t.items[k - t.first_index + 1]

\* the factor C1 or C2 of the recurrence: the zero branch when the knot difference is zero
Fraction(t, numerator, den) ==
    IF den = 0 THEN Coefficient(Polynomial(<<0>>), <<1>>, t.domain)
    ELSE Coefficient(Polynomial(numerator), Polynomial(<<den>>), t.domain)

\* NonUniformBSpline.__init__
RECURSIVE NonUniformBSpline_init(_, _, _, _)
NonUniformBSpline_init(H0, ti, m, k) ==
    LET fields == [cls |-> "N", t |-> ti, m |-> m, k |-> k, derivative |-> 0, arr |-> 0]
        t == Knotvectors[ti]
        H == Entered(H0)
        Second(F1, G1) ==
            IF G1.raised THEN Raised(F1.H, "IndexError")
            ELSE Eager(NonUniformBSpline_init(F1.H, ti, m - 1, k + 1),
                       LAMBDA F2 :
                         IF F2.error # "none" THEN F2
                         ELSE Eager(Function_mul(ValueOf(F2.H, F2.id),
                                                 Fraction(t, <<-1, Knot(t, k + m)>>,
                                                          Knot(t, k + m) - Knot(t, k + 1))),
                                    LAMBDA G2 : Recurrence(F2.H, G1, G2)))
        FromScratch ==
            IF ~DegreeAsserted(m) THEN Raised(H, "AssertionError")
            ELSE IF k + m - t.first_index + 1 > Len(t.items) THEN Raised(H, "IndexError")
            ELSE IF m = 1
            THEN Built(H, fields, Function_init(<<Branch(<<Knot(t, k), Knot(t, k + 1)>>,
                                                         Polynomial(<<1>>), <<1>>, TRUE, FALSE)>>))
            ELSE Eager(NonUniformBSpline_init(H, ti, m - 1, k),
                       LAMBDA F1 :
                         IF F1.error # "none" THEN F1
                         ELSE Eager(Function_mul(ValueOf(F1.H, F1.id),
                                                 Fraction(t, <<1, -Knot(t, k)>>,
                                                          Knot(t, k + m - 1) - Knot(t, k))),
                                    LAMBDA G1 : Second(F1, G1)))
    IN  Eager(Copyable_retrieve(H, KeyOf(fields)),
              LAMBDA R : IF R.new # 0 THEN Adopted(R, fields) ELSE FromScratch)

\* Function.diff(n, copy=True) of a basis function: a deep copy, differentiated
Diff_copy(H, id, n) ==
    Eager(Copyable_deepcopy(H, id),
          LAMBDA C : LET dv == Function_diff(ValueOf(C, C.new), n)
                     IN  [C EXCEPT !.arrs[C.objs[C.new].arr] = dv.branches,
                                   !.objs[C.new].derivative = dv.derivative])

\* Function.diff(n, copy=False): the object itself is differentiated
Diff_inplace(H, id, n) ==
    LET dv == Function_diff(ValueOf(H, id), n)
    IN  [H EXCEPT !.arrs[H.objs[id].arr] = dv.branches,
                  !.objs[id].derivative = dv.derivative,
                  !.new = id]

\* CardinalBSpline.diff
CardinalBSpline_diff(H, id, n, copy) ==
    LET o == H.objs[id]
        new_key == CardinalBSpline_key(o.m, o.derivative + n)
    IN  IF copy
        THEN IF new_key \in DOMAIN H.registry THEN Returned(H, H.registry[new_key])
             ELSE Eager(Diff_copy(H, id, n),
                        LAMBDA D : Returned(Copyable_store(D, new_key, D.new), D.new))
        ELSE Eager(Diff_inplace(H, id, n),
                   LAMBDA D : Returned(Copyable_store(D, new_key, id), id))

\* NonUniformBSpline.diff
NonUniformBSpline_diff(H, id, n, copy) ==
    LET o == H.objs[id]
        new_key == NonUniformBSpline_key(o.t, o.m, o.k, o.derivative + n)
    IN  IF copy
        THEN Eager(Copyable_retrieve(H, new_key),
                   LAMBDA R : IF R.new # 0 THEN Returned(R, R.new)
                              ELSE Eager(Diff_copy(H, id, n),
                                         LAMBDA D : Returned(Copyable_store(D, new_key, D.new), D.new)))
        ELSE Eager(Diff_inplace(H, id, n),
                   LAMBDA D : Returned(Copyable_store(D, new_key, id), id))

(***************************************************************************)
(* SpecRegistry: a caller that constructs basis functions, stores and      *)
(* retrieves them, differentiates them and mutates them in place.  refs    *)
(* holds the caller's two latest results (0 is None); last records the     *)
(* latest call: its name, its key, the error raised, the object returned,  *)
(* the number of store calls and of constructor calls it made, and for a   *)
(* space the functions built.  Objects nothing refers to are collected.    *)
(***************************************************************************)
MaxDegree == 2

MaxDerivative == 1

MaxMutations == 1

MaxCalls == 4

\* the keys the caller stores under: a key of its own, and the keys of two basis
\* functions of order 2 (CardinalBSpline.store(key=(2, 0), ...), and the same for
\* NonUniformBSpline on the second knot vector, index 1), each for an object of
\* that class
UserKeys == {<<"U", 1>>, CardinalBSpline_key(2, 0), NonUniformBSpline_key(2, 2, 1, 0)}

AbsentKeys == {<<"U", 0>>}

Heap == [EmptyHeap EXCEPT !.objs = objs, !.arrs = arrs, !.registry = registry]

Call(name, key, R, space) ==
    [call |-> name, calls |-> last.calls + 1, key |-> key, error |-> R.error, result |-> R.id,
     stores |-> R.H.stores, constructs |-> R.H.constructs, printed |-> R.H.printed, space |-> space]

NoCall ==
    [call |-> "none", calls |-> 0, key |-> <<>>, error |-> "none", result |-> 0,
     stores |-> 0, constructs |-> 0, printed |-> 0, space |-> <<>>]

Commit(R, handles, record) ==
    \E C \in {Collected(R.H, handles)} :
       /\ objs' = C.objs
       /\ arrs' = C.arrs
       /\ registry' = C.registry
       /\ refs' = C.handles
       /\ last' = [record EXCEPT !.result = IF @ = 0 THEN 0 ELSE IndexOf(Live(R.H, handles), @)]

Kept(R) == IF R.id = 0 THEN refs ELSE <<refs[2], R.id>>

\* the caller makes at most MaxCalls calls
Budget == last.calls < MaxCalls

PiecewiseIdle == UNCHANGED <<b1, b2, br, f, g, fr, fmerged, err>>

InitRegistry ==
    /\ b1 = NullBranch /\ b2 = NullBranch /\ br = NullBranch
    /\ f = NullFunction /\ g = NullFunction /\ fr = NullFunction
    /\ fmerged = FALSE /\ err = FALSE /\ op = "init"
    /\ objs = <<>> /\ arrs = <<>> /\ registry = <<>>
    /\ refs = <<0, 0>> /\ last = NoCall

ConstructCardinal ==
    /\ Budget
    /\ \E m \in (-1)..MaxDegree :
          \E R \in {CardinalBSpline_init(Heap, m)} :
             /\ Commit(R, Kept(R), Call("construct", CardinalBSpline_key(m, 0), R, <<>>))
             /\ op' = "cardinal"
             /\ PiecewiseIdle

ConstructNonUniform ==
    /\ Budget
    /\ \E ti \in KnotvectorsR :
          \E m \in {-1, 0, Knotvectors[ti].degree + 1},
             k \in Knotvector_kmin(Knotvectors[ti])..Knotvector_kmax(Knotvectors[ti]) :
             \E R \in {NonUniformBSpline_init(Heap, ti, m, k)} :
                /\ Commit(R, Kept(R), Call("construct", NonUniformBSpline_key(ti, m, k, 0), R, <<>>))
                /\ op' = "nonuniform"
                /\ PiecewiseIdle

Store ==
    /\ Budget
    /\ \E slot \in 1..2, key \in UserKeys :
          /\ refs[slot] # 0
          /\ key[1] \in {"U", objs[refs[slot]].cls}
          /\ \E H \in {Copyable_store(Heap, key, refs[slot])} :
                Commit(Returned(H, 0), refs, Call("store", key, Returned(H, refs[slot]), <<>>))
          /\ op' = "store"
          /\ PiecewiseIdle

Retrieve ==
    /\ Budget
    /\ \E key \in DOMAIN registry \cup AbsentKeys :
          /\ \E H \in {Copyable_retrieve(Heap, key)} :
                Commit(Returned(H, H.new), Kept(Returned(H, H.new)),
                       Call("retrieve", key, Returned(H, H.new), <<>>))
          /\ op' = "retrieve"
          /\ PiecewiseIdle

\* v.shift(1, copy=False) by the caller
Mutate ==
    /\ Budget
    /\ \E slot \in 1..2 :
          /\ refs[slot] # 0
          /\ arrs[objs[refs[slot]].arr][1].support[1] > -MaxMutations
          /\ \E F \in {Function_shift(ValueOf(Heap, refs[slot]), 1)} :
                \E H \in {[Heap EXCEPT !.arrs[objs[refs[slot]].arr] = F.branches]} :
                   Commit(Returned(H, 0), refs, Call("mutate", <<>>, Returned(H, refs[slot]), <<>>))
          /\ op' = "mutate"
          /\ PiecewiseIdle

Diff ==
    /\ Budget
    /\ \E slot \in 1..2, copy \in BOOLEAN :
          /\ refs[slot] # 0
          /\ objs[refs[slot]].derivative < MaxDerivative
          /\ \E R \in {IF objs[refs[slot]].cls = "C"
                       THEN CardinalBSpline_diff(Heap, refs[slot], 1, copy)
                       ELSE NonUniformBSpline_diff(Heap, refs[slot], 1, copy)} :
                Commit(R, IF copy THEN Kept(R) ELSE refs,
                       Call(IF copy THEN "diff" ELSE "diff_inplace",
                            [KeyOf(objs[refs[slot]]) EXCEPT ![Len(KeyOf(objs[refs[slot]]))] = @ + 1],
                            R, <<>>))
          /\ op' = "diff"
          /\ PiecewiseIdle

\* items = [NonUniformBSpline(t, degree + 1, k) for k in valid_function_keys]
RECURSIVE Items(_, _, _, _)
Items(H, ti, k, items) ==
    IF k > Knotvector_kmax(Knotvectors[ti]) THEN [H |-> H, id |-> 0, error |-> "none", items |-> items]
    ELSE Eager(NonUniformBSpline_init(H, ti, Knotvectors[ti].degree + 1, k),
               LAMBDA B : IF B.error # "none" THEN [H |-> B.H, id |-> 0, error |-> B.error, items |-> <<>>]
                          ELSE Items(B.H, ti, k + 1, Append(items, ValueOf(B.H, B.id))))

Basis ==
    /\ Budget
    /\ \E ti \in KnotvectorsR :
          \E R \in {Items(Heap, ti, Knotvector_kmin(Knotvectors[ti]), <<>>)} :
             /\ Commit(R, refs, Call("basis", <<ti>>, R, R.items))
             /\ op' = "basis"
             /\ PiecewiseIdle

NextRegistry ==
    \/ ConstructCardinal
    \/ ConstructNonUniform
    \/ Store
    \/ Retrieve
    \/ Mutate
    \/ Diff
    \/ Basis

SpecRegistry == InitRegistry /\ [][NextRegistry]_vars

(***************************************************************************)
(* SpecDiffs: a caller that only constructs basis functions and            *)
(* differentiates the objects it holds, a derivative of a derivative       *)
(* included, with copy=True or copy=False.                                 *)
(***************************************************************************)
\* refs[slot].diff(1, copy), where refs[slot] may be a derivative
DiffAgain ==
    /\ Budget
    /\ \E slot \in 1..2, copy \in BOOLEAN :
          /\ refs[slot] # 0
          /\ objs[refs[slot]].derivative < MaxDerivative + 1
          /\ \E R \in {IF objs[refs[slot]].cls = "C"
                       THEN CardinalBSpline_diff(Heap, refs[slot], 1, copy)
                       ELSE NonUniformBSpline_diff(Heap, refs[slot], 1, copy)} :
                Commit(R, IF copy THEN Kept(R) ELSE refs,
                       Call(IF copy THEN "diff" ELSE "diff_inplace",
                            [KeyOf(objs[refs[slot]]) EXCEPT ![Len(KeyOf(objs[refs[slot]]))] = @ + 1],
                            R, <<>>))
          /\ op' = "diff"
          /\ PiecewiseIdle

NextDiffs ==
    \/ ConstructCardinal
    \/ ConstructNonUniform
    \/ DiffAgain

SpecDiffs == InitRegistry /\ [][NextDiffs]_vars

(***************************************************************************)
(* SpecKey: a caller that builds non-uniform basis functions on knot       *)
(* vectors some of which have equal values, with different degree or       *)
(* different first_index.  last.request is the knot vector, the order and  *)
(* the index handed to the constructor.                                    *)
(***************************************************************************)
\* NonUniformBSpline(t, m, k) for any of the knot vectors
ConstructKeyed ==
    /\ Budget
    /\ \E ti \in 1..Len(Knotvectors) :
          \E m \in {1, Knotvectors[ti].degree + 1},
             k \in Knotvector_kmin(Knotvectors[ti])..Knotvector_kmax(Knotvectors[ti]) :
             \E R \in {NonUniformBSpline_init(Heap, ti, m, k)} :
                /\ Commit(R, Kept(R),
                          [request |-> <<ti, m, k>>] @@ Call("construct", NonUniformBSpline_key(ti, m, k, 0), R, <<>>))
                /\ op' = "nonuniform"
                /\ PiecewiseIdle

NextKey == ConstructKeyed

SpecKey == InitRegistry /\ [][NextKey]_vars

(***************************************************************************)
(* SpecOps: a caller that creates a Branch from a support of its choice    *)
(* and applies up to MaxOps Branch operations to it.  br is the branch the *)
(* caller holds, err whether the latest call raised, last the number of    *)
(* calls made and the arguments of the latest one.                         *)
(***************************************************************************)
MaxOps == 2

\* the supports a caller passes: none, one, two (ordered or not) or three bounds
SupportsO ==
    {<<>>, <<1>>, <<0, 1, 2>>} \cup {<<lo, hi>> : lo \in 0..MaxCoordB, hi \in 0..MaxCoordB}

\* the second operands of the binary operations
OperandsO ==
    { Branch(<<0, 2>>, <<1, 0>>, <<1>>, TRUE, FALSE),
      Branch(<<1, 3>>, <<1>>, <<1, -3>>, FALSE, TRUE),
      Branch(<<3, 3>>, <<1>>, <<1>>, TRUE, TRUE) }

ScalesC == {-2, -1, 1, 2}

Ordered(b) == b.support[1] <= b.support[2]

OpsIdle == UNCHANGED <<b1, f, g, fr, fmerged, objs, arrs, registry, refs>>

InitOps ==
    /\ b1 = NullBranch /\ b2 = NullBranch /\ br = NullBranch
    /\ f = NullFunction /\ g = NullFunction /\ fr = NullFunction
    /\ fmerged = FALSE /\ err = FALSE /\ op = "init"
    /\ objs = <<>> /\ arrs = <<>> /\ registry = <<>> /\ refs = <<0, 0>>
    /\ last = [ops |-> 0, support |-> <<>>, was |-> NullBranch]

Applied(name, result, operand) ==
    /\ br' = result
    /\ b2' = operand
    /\ err' = FALSE
    /\ op' = name
    /\ last' = [ops |-> last.ops + 1, support |-> <<>>, was |-> br]
    /\ OpsIdle

\* br = Branch(support, numerator)
BranchCreate ==
    /\ last.ops < MaxOps
    /\ \E support \in SupportsO, numerator \in NumeratorsB :
          \E R \in {Branch_init(support, numerator, <<1>>, TRUE, FALSE)} :
             /\ br' = IF R.raised THEN br ELSE R.branch
             /\ err' = R.raised
             /\ op' = "create"
             /\ last' = [ops |-> last.ops + 1, support |-> support, was |-> br]
             /\ UNCHANGED b2
             /\ OpsIdle

BranchBinary ==
    /\ last.ops < MaxOps
    /\ \E q \in OperandsO :
          \/ Applied("add", Branch_add(br, q), q)
          \/ Applied("sub", Branch_sub(br, q), q)
          \/ Applied("mul", Branch_mul(br, q), q)
          \/ Applied("truediv", Branch_truediv(br, q), q)

BranchNeg ==
    /\ last.ops < MaxOps
    /\ Applied("neg", Branch_neg(br), b2)

BranchDiff ==
    /\ last.ops < MaxOps
    /\ Applied("diff", Branch_diff(br, 1), b2)

BranchShiftBy ==
    /\ last.ops < MaxOps
    /\ \E h \in ShiftsH : Applied("shift", Branch_shift(br, h), b2)

BranchScale ==
    /\ last.ops < MaxOps
    /\ \E c \in ScalesC :
          /\ br.support[1] % Abs(c) = 0 /\ br.support[2] % Abs(c) = 0
          /\ Applied("scale", Branch_scale(br, c), b2)

NextOps ==
    \/ BranchCreate
    \/ BranchBinary
    \/ BranchNeg
    \/ BranchDiff
    \/ BranchShiftBy
    \/ BranchScale

SpecOps == InitOps /\ [][NextOps]_vars

(***************************************************************************)
(* SpecChain: a caller that constructs a Function (merge=True), combines   *)
(* it with a second function, and applies unary operations to the result,  *)
(* up to MaxChain calls.  fr is the result of the latest call, f the       *)
(* receiver as the call left it, g the other operand; last holds the names *)
(* of the calls made and the receiver as it was before the latest one.     *)
(***************************************************************************)
MaxChain == 3

ChainIdle == UNCHANGED <<b1, b2, br, fmerged, objs, arrs, registry, refs>>

InitChain ==
    /\ b1 = NullBranch /\ b2 = NullBranch /\ br = NullBranch
    /\ f = NullFunction /\ g = NullFunction /\ fr = NullFunction
    /\ fmerged = FALSE /\ err = FALSE /\ op = "init"
    /\ objs = <<>> /\ arrs = <<>> /\ registry = <<>> /\ refs = <<0, 0>>
    /\ last = [calls |-> <<>>, was |-> NullFunction, arg |-> 0]

\* the call name(arg) on the receiver fr returned result and left the receiver as receiver
Chained(name, arg, receiver, result, other) ==
    /\ fr' = result
    /\ f' = receiver
    /\ g' = other
    /\ err' = FALSE
    /\ op' = name
    /\ last' = [calls |-> Append(last.calls, name), was |-> fr, arg |-> arg]
    /\ ChainIdle

\* fr = Function(bs), for a list bs of different branches
FnConstruct ==
    /\ last.calls = <<>>
    /\ \E bs \in SeqsUpTo(FnPaletteF, MaxInputF) \ {<<>>} :
          \E r \in {Function_init(bs)} :
             /\ \A i, j \in 1..Len(bs) : bs[i] = bs[j] => i = j
             /\ ~r.raised
             /\ Chained("construct", 0, Function(r.branches, 0), Function(r.branches, 0), g)

\* fr = fr <name> other, for a constructed fr; a raise leaves fr as it was
FnBinary ==
    /\ last.calls = <<"construct">>
    /\ \E other \in FunctionsG :
          \E name \in {"add", "sub", "mul", "truediv"} :
             \E r \in {CASE name = "add" -> Function_add(fr, other)
                          [] name = "sub" -> Function_sub(fr, other)
                          [] name = "mul" -> Function_mul(fr, other)
                          [] name = "truediv" -> Function_truediv(fr, other)} :
                /\ fr' = IF r.raised THEN fr ELSE Function(r.branches, 0)
                /\ f' = fr
                /\ g' = other
                /\ err' = r.raised
                /\ op' = name
                /\ last' = [calls |-> Append(last.calls, name), was |-> fr, arg |-> 0]
                /\ ChainIdle

\* fr = -fr
FnNeg ==
    /\ last.calls # <<>> /\ Len(last.calls) < MaxChain
    /\ Chained("neg", 0, fr, Function_neg(fr), g)

\* fr = fr.shift(h)
FnShift ==
    /\ last.calls # <<>> /\ Len(last.calls) < MaxChain
    /\ \E h \in ShiftsH \ {0} : Chained("shift", h, fr, Function_shift(fr, h), g)

\* fr = fr.diff(n, copy)
FnDiff ==
    /\ last.calls # <<>> /\ Len(last.calls) < MaxChain
    /\ \E n \in 1..MaxDerivative, copy \in BOOLEAN :
          /\ fr.derivative + n <= MaxDerivative
          /\ \E r \in {Function_diff(fr, n)} :
             Chained(IF copy THEN "diff" ELSE "diff_inplace", n, IF copy THEN fr ELSE r, r, g)

NextChain ==
    \/ FnConstruct
    \/ FnBinary
    \/ FnNeg
    \/ FnShift
    \/ FnDiff

SpecChain == InitChain /\ [][NextChain]_vars

(***************************************************************************)
(* SpecSimplify: a Rational with integer coefficients and one call of its  *)
(* simplify(), which works on the object itself.  last.rational is the     *)
(* object before the call, last.simplified the object after it, with       *)
(* coefficients that are floats <<p, q>>.                                   *)
(***************************************************************************)
MaxCoeffS == 4
MaxOrderS == 2

\* the polynomials of order up to n with coefficients 0..MaxCoeffS
PolynomialsS(n) == {Polynomial(c) : c \in SeqsUpTo(0..MaxCoeffS, n + 1) \ {<<>>}}

\* denominators other than the zero polynomial
RationalsS == {Rational(n, d) : n \in PolynomialsS(1), d \in PolynomialsS(MaxOrderS) \ {<<0>>}}

\* np.poly1d.__getitem__: the coefficient of x^k
Polynomial_getitem(p, k) == IF k > Len(p) - 1 \/ k < 0 THEN 0 ELSE p[Len(p) - k]

\* Polynomial.__truediv__ by a number: every coefficient divided
Polynomial_truediv(p, c) == [i \in 1..Len(p) |-> FDiv(p[i], c)]

\* all but the last coefficient
Front(p) == SubSeq(p, 1, Len(p) - 1)

\* Rational.simplify
Rational_simplify(r) ==
    LET stripped ==
            IF r.numerator[Len(r.numerator)] = 0 /\ r.denominator[Len(r.denominator)] = 0
            THEN Rational(Polynomial(Front(r.numerator)), Polynomial(Front(r.denominator)))
            ELSE r
        Normalized(s) ==
            Rational(Polynomial_truediv(s.numerator, Polynomial_getitem(s.denominator, 0)),
                     Polynomial_truediv(s.denominator, Polynomial_getitem(s.denominator, 0)))
    IN  Eager(stripped, Normalized)

InitSimplify ==
    /\ b1 = NullBranch /\ b2 = NullBranch /\ br = NullBranch
    /\ f = NullFunction /\ g = NullFunction /\ fr = NullFunction
    /\ fmerged = FALSE /\ err = FALSE /\ op = "init"
    /\ objs = <<>> /\ arrs = <<>> /\ registry = <<>> /\ refs = <<0, 0>>
    /\ \E r \in RationalsS : last = [rational |-> r, simplified |-> r]

\* r.simplify()
Simplify ==
    /\ op = "init"
    /\ op' = "simplify"
    /\ last' = [last EXCEPT !.simplified = Rational_simplify(last.rational)]
    /\ UNCHANGED <<b1, b2, br, f, g, fr, fmerged, err, objs, arrs, registry, refs>>

NextSimplify == Simplify

SpecSimplify == InitSimplify /\ [][NextSimplify]_vars

(***************************************************************************)
(* SpecContainer: a Container or Knotcontainer with default keys and up to *)
(* MaxAppends append calls on it.  last.receiver is the object the caller  *)
(* holds, last.result the object the latest call returned, last.aliased    *)
(* whether they are one object, last.was the receiver before the call.     *)
(***************************************************************************)
MaxAppend == 2
MaxAppends == 1

\* Container.__init__ with keys=None: keys first_index, first_index + 1, ...
Container(items, first_index) ==
    [keys |-> [i \in 1..Len(items) |-> first_index + i - 1], items |-> items]

\* arrays handed to the append calls
KeysK == SeqsUpTo(2..3, MaxAppend)

ItemsK == SeqsUpTo(0..1, MaxAppend)

\* Container.append_items: the arrays are appended to self, mycopy is returned
Container_append_items(self, keys, items, copy) ==
    [receiver |-> [keys |-> self.keys \o keys, items |-> self.items \o items],
     result |-> IF copy THEN self ELSE [keys |-> self.keys \o keys, items |-> self.items \o items],
     aliased |-> ~copy, raised |-> FALSE]

\* Knotcontainer.append_knots
Knotcontainer_append_knots(self, keys, knots, copy) ==
    IF Len(keys) # Len(knots)
    THEN [receiver |-> self, result |-> self, aliased |-> FALSE, raised |-> TRUE]
    ELSE IF Len(knots) = 0
    THEN [receiver |-> self, result |-> self, aliased |-> ~copy, raised |-> FALSE]
    ELSE Container_append_items(self, keys, knots, copy)

InitContainer ==
    /\ b1 = NullBranch /\ b2 = NullBranch /\ br = NullBranch
    /\ f = NullFunction /\ g = NullFunction /\ fr = NullFunction
    /\ fmerged = FALSE /\ err = FALSE /\ op = "init"
    /\ objs = <<>> /\ arrs = <<>> /\ registry = <<>> /\ refs = <<0, 0>>
    /\ \E items \in ItemsK \ {<<>>}, first_index \in 0..1 :
          last = [calls |-> 0, receiver |-> Container(items, first_index),
                  result |-> Container(items, first_index), aliased |-> TRUE,
                  was |-> Container(items, first_index), keys |-> <<>>, items |-> <<>>, copy |-> FALSE]

Appended(name, R, keys, items, copy) ==
    /\ op' = name
    /\ err' = R.raised
    /\ last' = [calls |-> last.calls + 1, receiver |-> R.receiver, result |-> R.result,
                aliased |-> R.aliased, was |-> last.receiver, keys |-> keys, items |-> items,
                copy |-> copy]
    /\ UNCHANGED <<b1, b2, br, f, g, fr, fmerged, objs, arrs, registry, refs>>

\* receiver.append_items(keys, items, copy)
AppendItems ==
    /\ last.calls < MaxAppends
    /\ \E keys \in KeysK, items \in ItemsK, copy \in BOOLEAN :
          Appended("append_items", Container_append_items(last.receiver, keys, items, copy),
                   keys, items, copy)

\* receiver.append_knots(keys, knots, copy)
AppendKnots ==
    /\ last.calls < MaxAppends
    /\ \E keys \in KeysK, knots \in ItemsK, copy \in BOOLEAN :
          Appended("append_knots", Knotcontainer_append_knots(last.receiver, keys, knots, copy),
                   keys, knots, copy)

NextContainer == AppendItems \/ AppendKnots

SpecContainer == InitContainer /\ [][NextContainer]_vars

(***************************************************************************)
(* Properties of Branch (checked under SpecBranch).                        *)
(***************************************************************************)
\* x is inside the support of b, boundaries counted according to the flags
Inside(b, x) ==
    /\ IF b.includes_left_boundary THEN b.support[1] <= x ELSE b.support[1] < x
    /\ IF b.includes_right_boundary THEN x <= b.support[2] ELSE x < b.support[2]

\* the same for the point y/2
InsideHalf(b, y) ==
    /\ IF b.includes_left_boundary THEN 2 * b.support[1] <= y ELSE 2 * b.support[1] < y
    /\ IF b.includes_right_boundary THEN y <= 2 * b.support[2] ELSE y < 2 * b.support[2]

\* C1: at every point a branch evaluates to its formula value inside the
\* support (boundaries gated by the flags) and to exactly 0 outside.
C1_HardGate ==
    \A y \in PointsB :
        Branch_call(b1, y) =
            IF InsideHalf(b1, y) THEN Rational_call(Branch_formula(b1), y) ELSE Zero

Overlapping(p, q) == Max2(p.support[1], q.support[1]) <= Min2(p.support[2], q.support[2])

ExpectedSupport(p, q) == <<Max2(p.support[1], q.support[1]), Min2(p.support[2], q.support[2])>>

CarriesCommon(r, p, q) ==
    /\ r.support = ExpectedSupport(p, q)
    /\ r.includes_left_boundary = (Inside(p, ExpectedSupport(p, q)[1]) /\ Inside(q, ExpectedSupport(p, q)[1]))
    /\ r.includes_right_boundary = (Inside(p, ExpectedSupport(p, q)[2]) /\ Inside(q, ExpectedSupport(p, q)[2]))

\* C2: for overlapping branches common_support is [max lo, min hi], each
\* boundary included iff both operands include that coordinate, and the
\* result of +, -, *, / carries exactly this support and these flags.
C2_CommonSupport ==
    Overlapping(b1, b2) =>
        /\ Branch_common_support(b1, b2).support = ExpectedSupport(b1, b2)
        /\ Branch_common_support(b1, b2).inc_left =
               (Inside(b1, ExpectedSupport(b1, b2)[1]) /\ Inside(b2, ExpectedSupport(b1, b2)[1]))
        /\ Branch_common_support(b1, b2).inc_right =
               (Inside(b1, ExpectedSupport(b1, b2)[2]) /\ Inside(b2, ExpectedSupport(b1, b2)[2]))
        /\ (op \in {"add", "sub", "mul", "truediv"} => CarriesCommon(br, b1, b2))

\* [0,2) divided by [1,3] is a branch on [1,2)
C2_Witness ==
    /\ op = "truediv"
    /\ b1.support = <<0, 2>> /\ b1.includes_left_boundary /\ ~b1.includes_right_boundary
    /\ b2.support = <<1, 3>> /\ b2.includes_left_boundary /\ b2.includes_right_boundary
    /\ br.support = <<1, 2>> /\ br.includes_left_boundary /\ ~br.includes_right_boundary

\* C3: the result of a binary operation on branches with non-intersecting
\* supports has support (0,0) and both flags false, and evaluates to 0 at
\* every point.
C3_EmptyContributesNothing ==
    (op \in {"add", "sub", "mul", "truediv"} /\ ~Overlapping(b1, b2)) =>
        /\ br.support = <<0, 0>>
        /\ ~br.includes_left_boundary /\ ~br.includes_right_boundary
        /\ \A y \in PointsB : Branch_call(br, y) = Zero

(***************************************************************************)
(* Properties of merge_branches (checked under SpecMerge).                 *)
(***************************************************************************)
\* indices of the branches of bs whose support contains the midpoint of (x1, x2)
Covering(bs, x1, x2) == {i \in 1..Len(bs) : InsideHalf(bs[i], x1 + x2)}

\* k indexes a pair of consecutive breakpoints of the branch list bs
BreakpointPairs(bs) == 1..(Len(Function_breakpoints(bs)) - 1)

PairAt(bs, k) == <<Function_breakpoints(bs)[k], Function_breakpoints(bs)[k + 1]>>

\* out is a canonical partition of the sub-intervals of the input list
Partition(input, out) ==
    /\ \A i \in 1..(Len(out) - 1) :
          /\ out[i].support[1] < out[i + 1].support[1]
          /\ out[i].support[2] <= out[i + 1].support[1]
    /\ \A i, j \in 1..Len(out) : out[i].support = out[j].support => i = j
    /\ \A i \in 1..Len(out) :
          \E k \in BreakpointPairs(input) :
              /\ out[i].support = PairAt(input, k)
              /\ Covering(input, PairAt(input, k)[1], PairAt(input, k)[2]) # {}
    /\ \A k \in BreakpointPairs(input) :
          (\E i \in 1..Len(input) :
               /\ Covering(input, PairAt(input, k)[1], PairAt(input, k)[2]) = {i}
               /\ input[i].numerator # <<0>>)
          => \E j \in 1..Len(out) : out[j].support = PairAt(input, k)

\* the single zero branch on the unit interval
IsZeroFunction(bs) ==
    /\ Len(bs) = 1
    /\ bs[1].support = <<0, 1>>
    /\ bs[1].numerator = <<0>>

\* some sub-interval of the input is covered by exactly one branch, of non-zero numerator
SinglyCovered(input) ==
    \E k \in BreakpointPairs(input) : \E i \in 1..Len(input) :
        /\ Covering(input, PairAt(input, k)[1], PairAt(input, k)[2]) = {i}
        /\ input[i].numerator # <<0>>

\* C4 as stated: after merge_branches the branches are a canonical partition
\* (strictly increasing left endpoints, every support a pair of consecutive
\* breakpoints of the input, one branch per covered sub-interval,
\* hi_i <= lo_(i+1)).
C4_PartitionAlways == [][op' \in MergeOps => Partition(f.branches, f'.branches)]_vars

\* C4 amended: after merge_branches the branches are a canonical partition
\* of the input's sub-intervals, except that the result is the single zero
\* branch on (0,1) when no sub-interval survives.
C4_PartitionOrZero ==
    [][op' \in MergeOps =>
          \/ Partition(f.branches, f'.branches)
          \/ (IsZeroFunction(f'.branches) /\ ~SinglyCovered(f.branches))]_vars

\* merged [0,1), (1,5], [2,3): four branches, the second one is (1,2)
C4_Witness ==
    /\ op = "merge" /\ ~err
    /\ Len(f.branches) = 4
    /\ f.branches[2].support = <<1, 2>> /\ ~f.branches[2].includes_left_boundary
    /\ f.branches[3].support = <<2, 3>>
    /\ f.branches[4].support = <<3, 5>>

\* C6: merging an already merged function changes nothing (number of
\* branches, supports, flags, formulas), and merging two adjacent
\* non-overlapping branches [a,b), [b,c) yields exactly two branches.
C6_Idempotent ==
    [][op' \in MergeOps =>
          /\ (fmerged => (f' = f /\ ~err'))
          /\ (/\ Len(f.branches) = 2
              /\ f.branches[1].support[1] < f.branches[1].support[2]
              /\ f.branches[1].support[2] = f.branches[2].support[1]
              /\ f.branches[2].support[1] < f.branches[2].support[2]
              /\ f.branches[1].numerator # <<0>> /\ f.branches[2].numerator # <<0>>
              => Len(f'.branches) = 2)]_vars

\* [0,1), [1,2) and [4,5] have been merged and then merged again
C6_Witness ==
    /\ op = "remerge" /\ fmerged /\ ~err
    /\ Len(f.branches) = 3
    /\ f.branches[1].support = <<0, 1>> /\ ~f.branches[1].includes_right_boundary
    /\ f.branches[2].support = <<1, 2>> /\ f.branches[2].includes_right_boundary
    /\ f.branches[3].support = <<4, 5>>

\* C7: a function always has at least one branch after merge_branches, and
\* f - f of a merged f is exactly one zero-numerator branch on (0,1).
C7_NeverEmpty ==
    /\ (op \in MergeOps => Len(f.branches) >= 1)
    /\ Len(fr.branches) >= 1
    /\ (op = "subself" /\ fmerged => (~err /\ IsZeroFunction(fr.branches)))

\* f - f for a merged f of at least two non-zero branches
C7_Witness ==
    /\ op = "subself" /\ fmerged /\ ~err
    /\ Len(f.branches) >= 2
    /\ \A i \in 1..Len(f.branches) : f.branches[i].numerator # <<0>>
    /\ g = f
    /\ IsZeroFunction(fr.branches)

(***************************************************************************)
(* Properties of Function arithmetic (checked under Spec).                 *)
(***************************************************************************)
\* the doubled breakpoints of the operands f and g
OperandBreakpoints ==
    {2 * f.branches[i].support[k] : i \in 1..Len(f.branches), k \in 1..2}
    \cup {2 * g.branches[i].support[k] : i \in 1..Len(g.branches), k \in 1..2}

\* the evaluation points where both operands have a finite value
FinitePoints == {y \in Points : IsFinite(Function_call(f, y)) /\ IsFinite(Function_call(g, y))}

\* no point is included by two distinct branches of F
NoDoubleInclusion(F) ==
    \A y \in Points :
        \A i, j \in 1..Len(F.branches) :
            InsideHalf(F.branches[i], y) /\ InsideHalf(F.branches[j], y) => i = j

\* C5 as stated: after merge_branches no point is included by two distinct
\* branches, whatever the number of gaps between the covered intervals.
C5_NoDoubleInclusion ==
    /\ NoDoubleInclusion(f)
    /\ NoDoubleInclusion(g)
    /\ (op \in {"add", "sub", "mul"} /\ ~err => NoDoubleInclusion(fr))

\* C8 as stated: f + g is a function whose value at every x that is no
\* breakpoint of f or g is f(x) + g(x) (x ranges over the points where f
\* and g are finite).
C8_AddPointwise ==
    op = "add" =>
        /\ ~err
        /\ \A y \in FinitePoints \ OperandBreakpoints :
              Function_call(fr, y) = FAdd(Function_call(f, y), Function_call(g, y))

\* sub-intervals of the operands' breakpoints covered by both f and g
CoveredByBoth ==
    LET bs == f.branches \o g.branches
    IN  {k \in BreakpointPairs(bs) :
            /\ Covering(f.branches, PairAt(bs, k)[1], PairAt(bs, k)[2]) # {}
            /\ Covering(g.branches, PairAt(bs, k)[1], PairAt(bs, k)[2]) # {}}

\* C9 as stated: f * g is a function whose value at every x that is no
\* breakpoint of f or g is f(x) * g(x) (x ranges over the points where f
\* and g are finite); it has branches only on
\* sub-intervals covered by both operands, and it is the zero function on
\* (0,1) when there is no such sub-interval.
C9_MulPointwise ==
    op = "mul" =>
        /\ ~err
        /\ \A y \in FinitePoints \ OperandBreakpoints :
              Function_call(fr, y) = FMul(Function_call(f, y), Function_call(g, y))
        /\ IF CoveredByBoth = {} THEN IsZeroFunction(fr.branches)
           ELSE \A i \in 1..Len(fr.branches) :
                    \/ IsZeroFunction(fr.branches)
                    \/ \E k \in CoveredByBoth :
                           fr.branches[i].support = PairAt(f.branches \o g.branches, k)

\* C10 as stated: at every breakpoint x of f or g (where f and g are
\* finite), (f + g)(x) = f(x) + g(x) and (f * g)(x) = f(x) * g(x).
C10_BreakpointValues ==
    /\ op = "add" =>
          /\ ~err
          /\ \A y \in FinitePoints \cap OperandBreakpoints :
                Function_call(fr, y) = FAdd(Function_call(f, y), Function_call(g, y))
    /\ op = "mul" =>
          /\ ~err
          /\ \A y \in FinitePoints \cap OperandBreakpoints :
                Function_call(fr, y) = FMul(Function_call(f, y), Function_call(g, y))

Value(os, as, id) == [fields |-> [os[id] EXCEPT !.arr = 0], branches |-> as[os[id].arr]]

Handles(hs) == {hs[j] : j \in 1..2} \ {0}

\* C11: store(key, v) leaves under key a value equal to v, held by an object of the
\* registry's own (another instance, another branches array), whether or not key was
\* present (a present key is overwritten and the diagnostic printed once), and leaves
\* the entries under the other keys as they were; a later mutation of the caller's
\* object (an in-place shift or an in-place diff) changes no entry but the one the
\* in-place diff stores.
C11_StoreCopyIn ==
    [][/\ last'.call = "store" =>
             /\ DOMAIN registry' = DOMAIN registry \cup {last'.key}
             /\ Value(objs', arrs', registry'[last'.key]) = Value(objs, arrs, last'.result)
             /\ Value(objs', arrs', last'.result) = Value(objs, arrs, last'.result)
             /\ registry'[last'.key] \notin Handles(refs')
             /\ \A h \in Handles(refs') : objs'[h].arr # objs'[registry'[last'.key]].arr
             /\ \A x \in DOMAIN registry \ {last'.key} :
                   Value(objs', arrs', registry'[x]) = Value(objs, arrs, registry[x])
             /\ last'.printed = (IF last'.key \in DOMAIN registry THEN 1 ELSE 0)
             /\ last'.error = "none"
       /\ last'.call \in {"mutate", "diff_inplace"} =>
             \A x \in DOMAIN registry :
                (registry[x] # last'.result /\ ~(last'.call = "diff_inplace" /\ x = last'.key)) =>
                   /\ x \in DOMAIN registry'
                   /\ Value(objs', arrs', registry'[x]) = Value(objs, arrs, registry[x])]_vars

\* the caller stored v, then shifted v in place: the entry still holds the unshifted value
C11_Witness ==
    /\ last.call = "mutate"
    /\ <<"U", 1>> \in DOMAIN registry
    /\ registry[<<"U", 1>>] # last.result
    /\ arrs[objs[last.result].arr] =
          Function_shift(ValueOf(Heap, registry[<<"U", 1>>]), 1).branches


RegistryIds(reg) == {reg[x] : x \in DOMAIN reg}

RegistryValues(os, as, reg) == [x \in DOMAIN reg |-> Value(os, as, reg[x])]

\* an object that shares nothing with the other live objects: it is no entry of the
\* registry, not the caller's other handle, and its branches array is its own
Independent(os, reg, hs, id) ==
    /\ id \notin RegistryIds(reg)
    /\ hs[1] # hs[2]
    /\ \A j \in DOMAIN os : j # id => os[j].arr # os[id].arr

\* C12: retrieve(key) of a present key returns an object equal in value to the entry
\* and independent of it and of the value retrieved before (another instance, another
\* branches array), and leaves the registry as it was; of an absent key it returns
\* None and leaves the registry as it was; mutating a caller's object (in-place shift
\* or in-place diff) changes neither the caller's other object nor any entry that is
\* not that very object (but the one the in-place diff stores).
C12_RetrieveCopyOut ==
    [][/\ last'.call = "retrieve" =>
             /\ RegistryValues(objs', arrs', registry') = RegistryValues(objs, arrs, registry)
             /\ last'.error = "none"
             /\ IF last'.key \in DOMAIN registry
                THEN /\ last'.result # 0
                     /\ refs'[2] = last'.result
                     /\ Independent(objs', registry', refs', last'.result)
                     /\ Value(objs', arrs', last'.result) = Value(objs, arrs, registry[last'.key])
                ELSE /\ last'.result = 0
                     /\ refs' = refs
       /\ last'.call \in {"mutate", "diff_inplace"} =>
             /\ \A h \in Handles(refs) \ {last'.result} :
                   Value(objs', arrs', h) = Value(objs, arrs, h)
             /\ \A x \in DOMAIN registry :
                   (registry[x] # last'.result /\ ~(last'.call = "diff_inplace" /\ x = last'.key)) =>
                      RegistryValues(objs', arrs', registry')[x] = RegistryValues(objs, arrs, registry)[x]]_vars

\* the same key retrieved twice: two instances, both equal in value to the entry
C12_Witness ==
    /\ last.call = "retrieve"
    /\ last.key \in DOMAIN registry
    /\ refs[1] # 0 /\ refs[1] # refs[2]
    /\ refs[1] \notin RegistryIds(registry)
    /\ Value(objs, arrs, refs[1]) = Value(objs, arrs, registry[last.key])
    /\ Value(objs, arrs, refs[2]) = Value(objs, arrs, registry[last.key])


\* the basis function of a key, constructed with empty registries
Scratch(key) ==
    LET R == IF key[1] = "C" THEN CardinalBSpline_init(EmptyHeap, key[2])
             ELSE NonUniformBSpline_init(EmptyHeap, key[2], key[3], key[4])
    IN  Value(R.H.objs, R.H.arrs, R.id)

SameFunction(os, i, j) ==
    /\ os[i].cls = os[j].cls /\ os[i].t = os[j].t /\ os[i].m = os[j].m /\ os[i].k = os[j].k

\* C13: a construction that returns, returns the value a construction with empty
\* registries returns (so two constructions of one basis function return equal
\* values, whichever of them the cache serves; a key the caller itself stores
\* under is left out), in an object independent of the
\* registry entry and of the object constructed before; and when the caller holds two
\* objects of one basis function, mutating one (in-place shift, in-place diff) changes
\* neither the other nor the entry of the construction key.
C13_MemoizedIndependent ==
    [][/\ (last'.call = "construct" /\ last'.error = "none") =>
             /\ last'.result # 0
             /\ refs'[2] = last'.result
             /\ last'.key \in DOMAIN registry'
             /\ last'.key \notin UserKeys =>
                   \A scratch \in {Scratch(last'.key)} :
                      /\ Value(objs', arrs', last'.result) = scratch
                      /\ Value(objs', arrs', registry'[last'.key]) = scratch
             /\ Independent(objs', registry', refs', last'.result)
       /\ (/\ last'.call \in {"mutate", "diff_inplace"}
           /\ refs[1] # 0 /\ refs[1] # refs[2]
           /\ SameFunction(objs, refs[1], refs[2])) =>
             /\ \A h \in Handles(refs) \ {last'.result} :
                   Value(objs', arrs', h) = Value(objs, arrs, h)
             /\ \A x \in DOMAIN registry :
                   (x = KeyOf([objs[refs[1]] EXCEPT !.derivative = 0]) /\ registry[x] # last'.result) =>
                      Value(objs', arrs', registry'[x]) = Value(objs, arrs, registry[x])]_vars

\* a non-uniform basis function constructed a second time, served by the cache
C13_Witness ==
    /\ last.call = "construct" /\ last.error = "none" /\ last.stores = 0
    /\ refs[1] # 0 /\ refs[1] # refs[2]
    /\ objs[refs[2]].cls = "N"
    /\ Value(objs, arrs, refs[1]) = Value(objs, arrs, refs[2])
    /\ objs[refs[1]].arr # objs[refs[2]].arr


\* C14: when diff(n) with copy finds its key cached, the object it returns is
\* independent of the registry entry: it is no registry instance and not the object
\* an earlier diff(n) returned, and mutating a caller's object (in-place shift or
\* in-place diff) changes no entry but the one the in-place diff stores.
C14_DiffReturnsCopy ==
    [][/\ (last'.call = "diff" /\ last'.key \in DOMAIN registry) =>
             /\ last'.result # 0
             /\ Independent(objs', registry', refs', last'.result)
             /\ RegistryValues(objs', arrs', registry') = RegistryValues(objs, arrs, registry)
       /\ last'.call \in {"mutate", "diff_inplace"} =>
             \A x \in DOMAIN registry :
                ~(last'.call = "diff_inplace" /\ x = last'.key) =>
                   RegistryValues(objs', arrs', registry')[x] = RegistryValues(objs, arrs, registry)[x]]_vars


\* C15: constructing a basis function whose key is in the registry returns an object
\* with the cached value, constructs no other function (the constructor is entered
\* once), calls store not at all, prints nothing and leaves the registry as it was.
C15_CacheShortCircuit ==
    [][(last'.call = "construct" /\ last'.key \in DOMAIN registry) =>
          /\ last'.error = "none"
          /\ last'.result # 0
          /\ Value(objs', arrs', last'.result) = Value(objs, arrs, registry[last'.key])
          /\ last'.constructs = 1
          /\ last'.stores = 0
          /\ last'.printed = 0
          /\ DOMAIN registry' = DOMAIN registry
          /\ RegistryValues(objs', arrs', registry') = RegistryValues(objs, arrs, registry)]_vars

\* a non-uniform basis function of order 2 served by the cache: no function of order 1
\* is constructed and none is stored
C15_Witness ==
    /\ last.call = "construct" /\ last.error = "none"
    /\ last.key = NonUniformBSpline_key(2, 2, 1, 0)
    /\ last.constructs = 1 /\ last.stores = 0
    /\ NonUniformBSpline_key(2, 1, 1, 0) \notin DOMAIN registry
    /\ Value(objs, arrs, refs[2]) = Value(objs, arrs, registry[last.key])


DegreeOf(key) == IF key[1] = "C" THEN key[2] ELSE key[3]

\* C16: constructing a basis function of degree m <= 0 whose key is not in the registry
\* fails with the assertion error at once (no other constructor is entered), returns
\* nothing, stores nothing and leaves the registry and the caller's objects as they were.
C16_DegreePrecondition ==
    [][(last'.call = "construct" /\ DegreeOf(last'.key) <= 0 /\ last'.key \notin DOMAIN registry) =>
          /\ last'.error = "AssertionError"
          /\ last'.result = 0
          /\ last'.constructs = 1
          /\ last'.stores = 0
          /\ registry' = registry /\ objs' = objs /\ arrs' = arrs /\ refs' = refs]_vars

\* a non-uniform construction of degree 0 failed while the registry held entries
C16_Witness ==
    /\ last.call = "construct" /\ last.error = "AssertionError"
    /\ last.key[1] = "N" /\ DegreeOf(last.key) = 0
    /\ DOMAIN registry # {}
    /\ refs[2] # 0


\* C17: on a clamped knot vector, the construction of the non-uniform basis function
\* of order degree + 1 at a valid index completes and returns a function, whichever
\* knot differences are zero.
C17_RepeatedKnots ==
    (/\ last.call = "construct" /\ last.key[1] = "N"
     /\ last.key[3] = Knotvectors[last.key[2]].degree + 1
     /\ last.key[4] \in Knotvector_kmin(Knotvectors[last.key[2]])..Knotvector_kmax(Knotvectors[last.key[2]]))
        => (last.error = "none" /\ last.result # 0)


RECURSIVE SumAt(_, _, _)
SumAt(items, y, n) == IF n = 0 THEN Zero ELSE FAdd(SumAt(items, y, n - 1), Function_call(items[n], y))

\* the points x = y / 2 strictly inside the domain of a knot vector, the interior knots among them
InteriorPoints(t) == (2 * t.domain[1] + 1)..(2 * t.domain[2] - 1)

\* C18: the basis functions of order degree + 1 of a clamped knot vector, built for all
\* valid indices kmin..kmax, sum to 1 at every point strictly inside the domain.
C18_PartitionOfUnity ==
    last.call = "basis" =>
       /\ last.error = "none"
       /\ Len(last.space) = Knotvector_kmax(Knotvectors[last.key[1]])
       /\ \A y \in InteriorPoints(Knotvectors[last.key[1]]) :
             SumAt(last.space, y, Len(last.space)) = One


\* C19: CardinalBSpline(2) is built and its value at x = 1 is 0.5.
C19_CardinalTwoAtOne ==
    (last.call = "construct" /\ last.key = CardinalBSpline_key(2, 0)) =>
       /\ last.error = "none"
       /\ last.result # 0
       /\ Function_call(ValueOf(Heap, last.result), 2) = FDiv(1, 2)


(***************************************************************************)
(* Properties of Branch construction and of sequences of Branch operations *)
(* (checked under SpecOps).                                                *)
(***************************************************************************)
WellFormed(support) == Len(support) = 2 /\ support[1] <= support[2]

\* C21: creating a Branch from a support that is not exactly two ordered bounds raises
\* an error and produces no Branch.
C21_MalformedSupportRejected ==
    (op = "create" /\ ~WellFormed(last.support)) => (err /\ br = last.was)

\* C28: a Branch operation (+, -, *, /, negation, diff, shift, scale by a non-zero c)
\* applied to branches with lo <= hi gives a branch with lo <= hi.
C28_SupportOrdered ==
    (op \in {"add", "sub", "mul", "truediv", "neg", "diff", "shift", "scale"}
     /\ Ordered(last.was) /\ Ordered(b2)) => Ordered(br)


(***************************************************************************)
(* The boundary scan of merge_branches (checked under SpecMerge).          *)
(***************************************************************************)
\* branch i of bs is followed by an interval no branch covers
FollowedByGap(bs, i) == i < Len(bs) /\ bs[i].support[2] < bs[i + 1].support[1]

\* branch i of bs is immediately followed by another branch
FollowedByBranch(bs, i) == i < Len(bs) /\ bs[i].support[2] = bs[i + 1].support[1]

GapRule(bs) ==
    \A i \in 1..Len(bs) :
        /\ FollowedByGap(bs, i) => bs[i].includes_right_boundary
        /\ FollowedByBranch(bs, i) => ~bs[i].includes_right_boundary

\* C22: merge_branches never indexes a branch that does not exist, and afterwards
\* every branch followed by an uncovered interval includes its right boundary while
\* every branch immediately followed by another branch excludes it.
C22_GapRule == [][op' \in MergeOps => (~err' /\ GapRule(f'.branches))]_vars


(***************************************************************************)
(* Properties of chains of Function operations (checked under SpecChain).  *)
(***************************************************************************)
LastClosed(F) == F.branches[Len(F.branches)].includes_right_boundary

\* C23: the last branch of every Function produced by construction with merge, by
\* +, -, * or /, and by a later shift, diff or negation includes its right boundary.
C23_LastBranchClosed == (op # "init" /\ ~err) => (LastClosed(fr) /\ LastClosed(f))

\* a quotient of two functions, then differentiated: three branches, the last one closed
C23_Witness ==
    /\ last.calls = <<"construct", "truediv", "diff">>
    /\ ~err
    /\ Len(fr.branches) >= 3
    /\ LastClosed(fr)

SameShape(F, G) ==
    /\ Len(F.branches) = Len(G.branches)
    /\ \A i \in 1..Len(F.branches) :
          /\ F.branches[i].support = G.branches[i].support
          /\ F.branches[i].includes_left_boundary = G.branches[i].includes_left_boundary
          /\ F.branches[i].includes_right_boundary = G.branches[i].includes_right_boundary

\* C24: diff(n) returns a function with the branches of the receiver in the same
\* order, each with the support and the flags it had and the n-th derivative of its
\* formula, and with the derivative counter raised by n; with copy=True the receiver
\* is left as it was.
C24_DiffBranchwise ==
    op \in {"diff", "diff_inplace"} =>
        /\ SameShape(fr, last.was)
        /\ \A i \in 1..Len(fr.branches) :
              Branch_formula(fr.branches[i]) = Rational_diff(Branch_formula(last.was.branches[i]), last.arg)
        /\ fr.derivative = last.was.derivative + last.arg
        /\ op = "diff" => f = last.was
        /\ op = "diff_inplace" => f = fr

\* diff with copy=True of a function of two or more branches, one of them constant:
\* its derivative is a zero branch the result keeps
C24_Witness ==
    /\ op = "diff"
    /\ Len(fr.branches) >= 2
    /\ \E i \in 1..Len(fr.branches) :
          /\ fr.branches[i].numerator = <<0>>
          /\ last.was.branches[i].numerator # <<0>>
    /\ f = last.was /\ f # fr


(***************************************************************************)
(* Properties of Rational.simplify (checked under SpecSimplify).           *)
(***************************************************************************)
TrailingZero(p) == p[Len(p)] = 0

\* C27: after simplify() on a rational whose denominator is not the zero polynomial
\* the leading coefficient of the denominator is 1, and a trailing coefficient is
\* stripped only when numerator and denominator both end in a zero coefficient.
C27_DenominatorMonic ==
    op = "simplify" =>
        /\ last.simplified.denominator[1] = One
        /\ (Len(last.simplified.denominator) < Len(last.rational.denominator)
             \/ Len(last.simplified.numerator) < Len(last.rational.numerator))
           => (TrailingZero(last.rational.numerator) /\ TrailingZero(last.rational.denominator))


(***************************************************************************)
(* Properties of the recursive construction and of the registries under    *)
(* sequences of calls (checked under SpecRegistry).                        *)
(***************************************************************************)
\* the keys of the lower-order functions the construction of key uses, key among them
NeededKeys(key) ==
    IF key[1] = "C"
    THEN {CardinalBSpline_key(j, 0) : j \in 1..key[2]}
    ELSE {NonUniformBSpline_key(key[2], j, k, 0) : j \in 1..key[3], k \in key[4]..(key[4] + key[3])}
         \cap {n \in {NonUniformBSpline_key(key[2], j, k, 0) : j \in 1..key[3], k \in key[4]..(key[4] + key[3])} :
                  n[4] + n[3] <= key[4] + key[3]}

\* C25: the construction of a basis function of order m >= 1 returns; on return the
\* registry holds the key of the function and of every lower-order function it used,
\* and a construction that started from an empty registry printed no existing-key
\* diagnostic (no key was stored twice).
C25_ConstructionFillsRegistry ==
    [][(last'.call = "construct" /\ DegreeOf(last'.key) >= 1) =>
          /\ last'.error = "none"
          /\ last'.result # 0
          /\ NeededKeys(last'.key) \subseteq DOMAIN registry'
          /\ registry = <<>> => last'.printed = 0]_vars

\* C29: after any sequence of constructions and diff calls every registry entry holds
\* a function with the degree, the index and the derivative counter of its key, and
\* an entry of derivative order 0 holds the undifferentiated basis function.
C29_RegistryConsistent ==
    \A key \in DOMAIN registry :
        /\ KeyOf(objs[registry[key]]) = key
        /\ key[Len(key)] = 0 => Value(objs, arrs, registry[key]) = Scratch(key)


(***************************************************************************)
(* Properties of the container appends (checked under SpecContainer).      *)
(***************************************************************************)
WithAppended(c, keys, items) == [keys |-> c.keys \o keys, items |-> c.items \o items]

\* C30: append_items and append_knots with copy=True leave the keys and items of the
\* receiver as they were and return another object that holds the appended keys and
\* items; with copy=False they change the receiver and return it.
C30_AppendCopySemantics ==
    (op \in {"append_items", "append_knots"} /\ ~err /\ last.keys # <<>> /\ last.items # <<>>) =>
        IF last.copy
        THEN /\ last.receiver = last.was
             /\ ~last.aliased
             /\ last.result = WithAppended(last.was, last.keys, last.items)
        ELSE /\ last.aliased
             /\ last.receiver = WithAppended(last.was, last.keys, last.items)
             /\ last.result = last.receiver


(***************************************************************************)
(* Properties of the non-uniform cache key (checked under SpecKey).        *)
(***************************************************************************)
\* the branches NonUniformBSpline(t, m, k) has when it is built with an empty registry
ScratchBranches(request) ==
    LET R == NonUniformBSpline_init(EmptyHeap, request[1], request[2], request[3])
    IN  R.H.arrs[R.H.objs[R.id].arr]

\* C26: a construction NonUniformBSpline(t, m, k) that returns, returns the function a
\* build from scratch of (t, m, k) gives, whatever was built before: requests with
\* equal cache keys have equal functions, also for knot vectors with equal values and
\* different degree or different first_index.
C26_KeyIdentifiesFunction ==
    (last.call = "construct" /\ last.error = "none") =>
        arrs[objs[last.result].arr] = ScratchBranches(last.request)


====
